---- MODULE Spec2Model ----
(***************************************************************************)
(* Row-wise multiple-testing correction (mediation_tools/fdr_correction.py) *)
(*                                                                         *)
(* The model covers the two correction kernels (_bh_rowwise,               *)
(* _bonferroni_rowwise) and the multithreaded driver                       *)
(* apply_correction_parallel: chunk sizing, submission of one future per   *)
(* row range to a bounded thread pool, the worker threads, the             *)
(* as_completed loop that copies each chunk result to its row range, and   *)
(* the executor shutdown.                                                  *)
(*                                                                         *)
(* Numbers.  p-values and q-values are fixed-point rationals: the integer  *)
(* x stands for x / One.  Every input value is a multiple of Grain, the    *)
(* least common multiple of the ranks 1..MaxWidth, so that the quotient    *)
(* p * cnt / k of the BH kernel is exact.  float32 rounding is             *)
(* not modelled.  NaN and +inf are two reserved integers that arithmetic   *)
(* never touches: every operator tests for them first, as IEEE does.       *)
(*                                                                         *)
(* Matrices are records [m, n, d] with d[r][c] for r in 0..m-1 and         *)
(* c in 0..n-1 (row-major and 0-based, as numpy indexes them).             *)
(*                                                                         *)
(* Inputs.  Init draws the call from four families: every one-row matrix   *)
(* over PVals up to MaxN columns and the scenario rows (one chunk); every  *)
(* matrix of up to MaxM rows from RowPool, with every chunk_rows and       *)
(* n_threads (several chunks, every interleaving); the same shapes with a  *)
(* kernel that may raise; and the degenerate shapes and arguments that     *)
(* make the driver raise before it allocates.                              *)
(*                                                                         *)
(* Two more programs of the package are modelled, each with variables and  *)
(* a specification of its own: the screening of SNP-protein hits           *)
(* (mediation_tools/screen_proteins.py, ScreenSpec), which consumes the    *)
(* table of corrected q-values, and the upstream aggregation of the        *)
(* per-phenotype association files (mediation_tools/p_snps_protein.py and  *)
(* pip_snps_protein.py, AggSpec), which produces the input tables.  While  *)
(* one program runs the variables of the others keep their idle values.    *)
(***************************************************************************)
EXTENDS Integers, Sequences, FiniteSets, TLC

\* --------------------------------------------------------------------------
\* Bounds of the model
\* --------------------------------------------------------------------------
\* largest number of rows of a matrix built from the row pool
MaxM == 3
\* largest number of columns
MaxN == 3
\* largest explicit chunk_rows argument
MaxChunkRows == 2
\* largest n_threads argument
MaxThreads == 2

\* --------------------------------------------------------------------------
\* Values
\* --------------------------------------------------------------------------
\* np.nan: the missing entry
NaN == 2000000000
\* np.inf
Inf == 1000000000

Min2(a, b) == IF a <= b THEN a ELSE b
Max2(a, b) == IF a >= b THEN a ELSE b

RECURSIVE Gcd(_, _)
Gcd(a, b) == IF b = 0 THEN a ELSE Gcd(b, a % b)

RECURSIVE LcmUpTo(_)
LcmUpTo(n) == IF n <= 1 THEN 1 ELSE (LcmUpTo(n - 1) * n) \div Gcd(LcmUpTo(n - 1), n)

\* the rows of the concrete scenarios, in hundredths (0 - 1 marks a missing entry)
ScenarioRows == { <<1, 2, 3, 20>>, <<50, 0 - 1, 10>> }

\* the widest row of any input matrix
MaxWidth == Max2(MaxN, 4)

\* the granularity of input values: every rank k in 1..MaxWidth divides it
Grain == LcmUpTo(MaxWidth)
\* the fixed-point image of 1.0 (the upper clip bound)
One == 100 * Grain
\* the fixed-point image of the p-value h / 100
P(h) == h * Grain

\* np.isnan on one entry
isnan(x) == x = NaN

\* float multiplication x * (num / den), num >= 0 and den > 0 finite:
\* nan stays nan, inf * positive is inf, inf * 0 is nan
FMulDiv(x, num, den) ==
    IF isnan(x) THEN NaN
    ELSE IF x = Inf THEN (IF num = 0 THEN NaN ELSE Inf)
    ELSE (x * num) \div den

\* a clip with no lower bound
clip_upper_only(x) == IF isnan(x) THEN NaN ELSE Min2(One, x)

\* np.clip(x, 0, 1) on one entry: nan is passed through, inf clips to 1
clip(x) == IF isnan(x) THEN NaN ELSE Max2(0, Min2(One, x))

\* np.maximum in the place of np.minimum
minimum_as_maximum(a, b) == Max2(a, b)

\* np.minimum on two entries, neither of them nan
minimum(a, b) == Min2(a, b)


\* --------------------------------------------------------------------------
\* Matrices
\* --------------------------------------------------------------------------
Rows(a) == 0 .. (a.m - 1)
Cols(a) == 0 .. (a.n - 1)

\* p[lo:hi], the view of rows lo .. hi-1, re-indexed from 0
View(a, lo, hi) ==
    [m |-> hi - lo, n |-> a.n,
     d |-> [r \in 0 .. (hi - lo - 1) |-> a.d[lo + r]]]

\* q[lo:hi] = res, the assignment of a block of rows
AssignRows(q, lo, hi, res) ==
    [q EXCEPT !.d = [r \in Rows(q) |-> IF lo <= r /\ r < hi THEN res.d[r - lo] ELSE q.d[r]]]

\* --------------------------------------------------------------------------
\* Kernels
\* --------------------------------------------------------------------------
\* valid = ~np.isnan(p)
valid(p) == [r \in Rows(p) |-> [c \in Cols(p) |-> ~isnan(p.d[r][c])]]

\* a count taken over the whole block instead of along axis 1
cnt_over_block(p) ==
    [r \in Rows(p) |-> Cardinality({rc \in Rows(p) \X Cols(p) : ~isnan(p.d[rc[1]][rc[2]])})]

\* a count that takes every column, missing or not
cnt_with_missing(p) == [r \in Rows(p) |-> p.n]

\* valid.sum(axis=1): the number of non-missing entries of each row
cnt(p) == [r \in Rows(p) |-> Cardinality({c \in Cols(p) : valid(p)[r][c]})]

\* an order that puts nan before every number
SortLess_nan_first(a, b) == ~isnan(b) /\ (isnan(a) \/ a < b)

\* the order of np.sort on floats: nan sorts after every number
SortLess(a, b) == ~isnan(a) /\ (isnan(b) \/ a < b)
SortEq(a, b) == (isnan(a) /\ isnan(b)) \/ (~isnan(a) /\ ~isnan(b) /\ a = b)

\* an intermediate array, computed once and then indexed
Array(f) == f @@ <<>>

\* the sorted position of column c of row under the stable ascending order
SortedPos(row, c) ==
    Cardinality({b \in DOMAIN row : SortLess(row[b], row[c]) \/ (SortEq(row[b], row[c]) /\ b < c)})

\* np.argsort(row, kind="mergesort"): the stable ascending permutation;
\* argsort(row)[j] is the column that lands at sorted position j
argsort(row) ==
    LET pos == Array([c \in DOMAIN row |-> SortedPos(row, c)])
    IN  Array([j \in DOMAIN row |-> CHOOSE c \in DOMAIN row : pos[c] = j])

\* np.take_along_axis(row, idx)
take(row, idx) == Array([j \in DOMAIN idx |-> row[idx[j]]])

\* no accumulation: the raw value of each rank
SuffixMin_raw(row, j, last) == row[j]

\* np.minimum.accumulate(row[::-1])[::-1] from position j on
RECURSIVE SuffixMin(_, _, _)
SuffixMin(row, j, last) ==
    IF j >= last THEN row[j] ELSE minimum(row[j], SuffixMin(row, j + 1, last))

\* the sorted order taken for its own inverse
inverse_skipped(order) == order

\* inv = np.argsort(order): the inverse permutation
inverse(order) == argsort(order)

\* the output with the missing positions left as computed
restore_missing_skipped(row, q) == q

\* q[~valid] = np.nan
restore_missing(row, q) == [c \in DOMAIN row |-> IF isnan(row[c]) THEN NaN ELSE q[c]]

\* one row of _bh_rowwise
BhRow(row, count) ==
    LET n        == Cardinality(DOMAIN row)
        k        == [j \in DOMAIN row |-> j + 1]
        order    == argsort(row)
        p_sorted == take(row, order)
        q_raw    == [j \in DOMAIN row |-> FMulDiv(p_sorted[j], count, k[j])]
        q_tmp    == Array([j \in DOMAIN row |-> IF isnan(q_raw[j]) THEN Inf ELSE q_raw[j]])
        q_sorted == Array([j \in DOMAIN row |-> clip(SuffixMin(q_tmp, j, n - 1))])
        inv      == inverse(order)
        q        == take(q_sorted, inv)
    IN  restore_missing(row, q)

\* _bh_rowwise(p)
_bh_rowwise(p) ==
    [m |-> p.m, n |-> p.n, d |-> [r \in Rows(p) |-> BhRow(p.d[r], cnt(p)[r])]]

\* _bonferroni_rowwise(p)
_bonferroni_rowwise(p) ==
    LET m_valid == cnt(p)
    IN  [m |-> p.m, n |-> p.n,
         d |-> [r \in Rows(p) |-> [c \in Cols(p) |-> clip(FMulDiv(p.d[r][c], m_valid[r], 1))]]]

\* kernel = _bh_rowwise if method == "bh" else _bonferroni_rowwise
kernel(method, p) == IF method = "bh" THEN _bh_rowwise(p) ELSE _bonferroni_rowwise(p)

\* --------------------------------------------------------------------------
\* Inputs of apply_correction_parallel
\* --------------------------------------------------------------------------
\* chunk_rows=None
None == 0 - 1

\* the values of the exhaustively enumerated rows
PVals == {NaN, P(0 - 10), P(0), P(10), P(40), P(50), P(150)}

\* a row given as a tuple of hundredths
RowOf(t) == [c \in 0 .. (Len(t) - 1) |-> IF t[c + 1] < 0 THEN NaN ELSE P(t[c + 1])]

\* rows of width n that differ in their count of missing entries
RampRow(n) == [c \in 0 .. (n - 1) |-> P(10 * (n - c))]
HoleRow(n) == [c \in 0 .. (n - 1) |-> IF c = 0 THEN NaN ELSE P(40)]
WildRow(n) == [c \in 0 .. (n - 1) |-> IF c = 0 THEN Inf ELSE IF c % 2 = 1 THEN P(0 - 10) ELSE P(150)]
RowPool(n) == {RampRow(n), HoleRow(n), WildRow(n)}

\* one-row matrices over every row of PVals up to MaxN columns
SingleRowInputs ==
    UNION {{[m |-> 1, n |-> n, d |-> [r \in {0} |-> row]] : row \in [0 .. (n - 1) -> PVals]} : n \in 1 .. MaxN}

\* the scenario rows as one-row matrices
ScenarioInputs ==
    {[m |-> 1, n |-> Len(t), d |-> [r \in {0} |-> RowOf(t)]] : t \in ScenarioRows}

\* matrices of 1..MaxM rows drawn from the row pool
PoolInputs ==
    UNION {{[m |-> m, n |-> MaxN, d |-> d] : d \in [0 .. (m - 1) -> RowPool(MaxN)]} : m \in 1 .. MaxM}

\* the matrices on which a kernel invocation may raise
FaultInputs ==
    {[m |-> m, n |-> MaxN, d |-> [r \in 0 .. (m - 1) |-> RampRow(MaxN)]] : m \in 1 .. MaxM}

\* matrices with no row or no column, and the smallest regular one
EdgeInputs ==
    {[m |-> m, n |-> n, d |-> [r \in 0 .. (m - 1) |-> [c \in 0 .. (n - 1) |-> P(10)]]] : m \in 0 .. 1, n \in 0 .. 1}

\* the two methods of the driver
Methods == {"bh", "bonferroni"}

\* --------------------------------------------------------------------------
\* Inputs of run_pipeline
\* --------------------------------------------------------------------------
\* a tuple as a 0-based array
ZeroBased(t) == [r \in 0 .. (Len(t) - 1) |-> t[r + 1]]

\* a pandas table: column names in order, row index labels by position, and
\* the values of every column by position
DataFrame(columns, index, data) == [kind |-> "DataFrame", columns |-> columns, index |-> index, data |-> data]

\* the chromosome and the marker id of the row at each position
ChrOf == <<7, 9>>
RsOf == <<"rs7", "rs9">>

\* the test columns in hundredths (negative = missing), row by row
CellRows == {<<<<1, 20>>, <<0 - 1, 10>>>>, <<<<0, 1>>, <<1, 2>>>>}

\* row index labels: the default RangeIndex, a reordered one, a shifted one
IndexLabels == {<<0, 1>>, <<1, 0>>, <<1, 2>>}

\* column orders: identifiers first, and identifiers among the tests
ColumnOrders == {<<"chr", "rs", "t1", "t2">>, <<"rs", "t1", "chr", "t2">>}

\* the table with these columns, labels and test cells
InputTable(columns, labels, cells) ==
    DataFrame(columns, ZeroBased(labels),
              [c \in {"chr", "rs", "t1", "t2"} |->
                  [r \in 0 .. (Len(labels) - 1) |->
                      CASE c = "chr" -> ChrOf[r + 1]
                        [] c = "rs" -> RsOf[r + 1]
                        [] c = "t1" -> RowOf(cells[r + 1])[0]
                        [] c = "t2" -> RowOf(cells[r + 1])[1]]])

PipelineTables == {InputTable(c, l, d) : c \in ColumnOrders, l \in IndexLabels, d \in CellRows}

\* the table on which the failing runs are started
PlainTable == InputTable(<<"chr", "rs", "t1", "t2">>, <<0, 1>>, <<<<1, 20>>, <<0 - 1, 10>>>>)

\* table df without its column name
WithoutColumn(df, name) ==
    DataFrame(SelectSeq(df.columns, LAMBDA c : c # name), df.index,
              [c \in (DOMAIN df.data) \ {name} |-> df.data[c]])

\* an unpickled object that is no table
NotATable == [kind |-> "dict", columns |-> <<>>, index |-> <<>>, data |-> <<>>]

\* the objects load_snp_dataframe rejects
BrokenInputs == {NotATable, WithoutColumn(PlainTable, "chr"), WithoutColumn(PlainTable, "rs")}

\* significance_threshold: absent, zero, 0.2
Thresholds == {None, P(0), P(20)}

\* a CSV file left at the output path by an earlier run
StaleCsv == <<[snp_name |-> "stale", pvalue_column |-> "stale", q_value |-> P(0)]>>

\* --------------------------------------------------------------------------
\* State
\* --------------------------------------------------------------------------
VARIABLES
    p_values,       \* argument: the input matrix
    method,         \* argument: "bh" or "bonferroni"
    n_threads,      \* argument: max_workers of the pool
    chunk_rows,     \* argument, then local: rows per chunk (None = auto)
    n_chunks,       \* local: number of chunks
    q_values,       \* local: the output buffer
    idx,            \* local: index of the next chunk to submit
    futures,        \* local: idx -> [lo, hi, state, result] (the dict futures and its keys)
    yieldq,         \* the futures as_completed has still to yield, in yield order
    pc,             \* position of the driver
    error,          \* the exception that left or is leaving the driver
    may_raise,      \* environment: whether a kernel invocation can raise
    written,        \* per row: how many times line 156 has assigned it
    error_fut,      \* the future whose exception fut.result() re-raised (None = none)
    ppc,            \* position of run_pipeline ("direct": the driver is called on its own)
    input_pkl,      \* argument: the object unpickled from the input path
    significance_threshold, \* argument: None or the caller's threshold
    output_hdf5,    \* argument: whether a path is given for the HDF5 file
    output_csv,     \* argument: whether a path is given for the CSV file
    output_pkl,     \* argument: whether a path is given for the pickle
    threshold,      \* local of run_pipeline
    chr_col,        \* local of run_pipeline: the Series df["chr"]
    rs_col,         \* local of run_pipeline: the Series df["rs"]
    pval_cols,      \* local of run_pipeline: the test column names
    hdf5_file,      \* file system: <<>> while absent, else <<content>>
    csv_file,       \* file system: <<>> while absent, else <<records>>
    pkl_file,       \* file system: <<>> while absent, else <<table>>
    s_pc,           \* screen_proteins: position of main
    bonf_pkl,       \* local of load_and_align: the table unpickled from BONFERRONI_PKL
    pip_pkl,        \* local of load_and_align: the table unpickled from PIP_PKL
    bonf_df,        \* local of main: the aligned q-value table
    pip_df,         \* local of main: the aligned PIP table
    grid_pos,       \* main: position in the parameter grid (0 = before the first pair)
    tasks,          \* screen_hits: protein column -> [state, result] (the dict futures)
    records,        \* local of screen_hits
    hits_df,        \* local of main: the frame screen_hits returned
    csv_files,      \* file system: file name -> the records written to it
    s_error,        \* the exception that left main ("none" = none)
    a_pc,           \* p_snps_protein: position of run
    snp_data,       \* the rows of the BIM file: <<chr, rs>>
    phenotypes,     \* local of run: the sorted directory names
    assoc_files,    \* file system: phenotype -> its association file
    p_snps,         \* local of run: [columns, data], data[name] a list of values
    ph_i,           \* process_all_phenotypes: number of phenotypes processed
    successful_phenotypes, \* local of process_all_phenotypes
    failed_phenotypes,     \* local of process_all_phenotypes
    removed_columns,       \* local of run
    output_pickle   \* file system: <<>> while absent, else <<table>>

\* the arguments, locals and files of run_pipeline
pvars ==
    <<ppc, input_pkl, significance_threshold, output_hdf5, output_csv, output_pkl,
      threshold, chr_col, rs_col, pval_cols, hdf5_file, csv_file, pkl_file>>

\* the state of screen_proteins.main
svars ==
    <<s_pc, bonf_pkl, pip_pkl, bonf_df, pip_df, grid_pos, tasks, records, hits_df, csv_files, s_error>>

\* the state of p_snps_protein's run (pip_snps_protein's has the same shape)
avars ==
    <<a_pc, snp_data, phenotypes, assoc_files, p_snps, ph_i, successful_phenotypes,
      failed_phenotypes, removed_columns, output_pickle>>

\* the state of the other two programs, which the correction never touches
ovars == <<svars, avars>>

\* the arguments and locals of apply_correction_parallel, and its pool
dvars ==
    <<p_values, method, n_threads, chunk_rows, n_chunks, q_values, idx, futures, yieldq, pc, error,
      may_raise, written, error_fut>>

vars == <<dvars, pvars, ovars>>

\* no matrix yet
NoMatrix == [m |-> 0, n |-> 0, d |-> <<>>]

\* what np.empty_like may hand out: memory of any content
Garbage == {NaN, P(0)}

\* no Series yet
NoSeries == [index |-> <<>>, values |-> <<>>]

\* no table yet
NoTable == [columns |-> <<>>, rows |-> <<>>]

\* no frame yet
NoFrame == [columns |-> <<>>, data |-> <<>>]

\* screen_proteins.main is not running
ScreenIdle ==
    /\ s_pc = "off"
    /\ bonf_pkl = NoTable /\ pip_pkl = NoTable
    /\ bonf_df = NoTable /\ pip_df = NoTable
    /\ grid_pos = 0
    /\ tasks = <<>>
    /\ records = <<>>
    /\ hits_df = <<>>
    /\ csv_files = <<>>
    /\ s_error = "none"

\* the aggregation is not running
AggIdle ==
    /\ a_pc = "off"
    /\ snp_data = <<>>
    /\ phenotypes = <<>>
    /\ assoc_files = <<>>
    /\ p_snps = NoFrame
    /\ ph_i = 0
    /\ successful_phenotypes = <<>>
    /\ failed_phenotypes = <<>>
    /\ removed_columns = <<>>
    /\ output_pickle = <<>>

\* apply_correction_parallel called on its own: no pipeline around it
DirectCall ==
    /\ pc = "call"
    /\ ppc = "direct"
    /\ input_pkl = NotATable
    /\ significance_threshold = None
    /\ output_hdf5 = FALSE /\ output_csv = FALSE /\ output_pkl = FALSE
    /\ csv_file = <<>>

\* run_pipeline called: the driver's arguments are set by the call of line 294
PipelineCall ==
    /\ pc = "idle"
    /\ ppc = "start"
    /\ p_values = NoMatrix
    /\ n_threads = 1
    /\ chunk_rows = None
    /\ output_hdf5 \in BOOLEAN /\ output_csv \in BOOLEAN /\ output_pkl \in BOOLEAN
    /\ csv_file \in {<<>>, <<StaleCsv>>}

Init ==
    /\ \/ /\ p_values \in SingleRowInputs \cup ScenarioInputs
          /\ method \in Methods
          /\ n_threads = 1
          /\ chunk_rows = None
          /\ may_raise = FALSE
          /\ DirectCall
       \/ /\ p_values \in PoolInputs
          /\ method \in Methods
          /\ n_threads \in 1 .. MaxThreads
          /\ chunk_rows \in {None} \cup (1 .. MaxChunkRows)
          /\ may_raise = FALSE
          /\ DirectCall
       \/ /\ p_values \in FaultInputs
          /\ method \in Methods
          /\ n_threads \in 1 .. MaxThreads
          /\ chunk_rows \in 1 .. MaxChunkRows
          /\ may_raise = TRUE
          /\ DirectCall
       \/ /\ p_values \in EdgeInputs
          /\ method \in Methods \cup {"holm"}
          /\ n_threads = 1
          /\ chunk_rows \in {None, 0, 1}
          /\ may_raise = FALSE
          /\ DirectCall
       \/ /\ input_pkl \in PipelineTables
          /\ method \in Methods
          /\ significance_threshold \in Thresholds
          /\ may_raise = FALSE
          /\ PipelineCall
       \/ /\ input_pkl = PlainTable
          /\ \/ method \in Methods /\ may_raise = TRUE
             \/ method = "holm" /\ may_raise = FALSE
          /\ significance_threshold = None
          /\ PipelineCall
       \/ /\ input_pkl \in BrokenInputs
          /\ method \in Methods
          /\ significance_threshold = None
          /\ may_raise = FALSE
          /\ PipelineCall
    /\ n_chunks = 0
    /\ q_values = NoMatrix
    /\ idx = 0
    /\ futures = <<>>
    /\ yieldq = <<>>
    /\ error = "none"
    /\ written = <<>>
    /\ error_fut = None
    /\ threshold = None
    /\ chr_col = NoSeries
    /\ rs_col = NoSeries
    /\ pval_cols = <<>>
    /\ hdf5_file = <<>>
    /\ pkl_file = <<>>
    /\ ScreenIdle
    /\ AggIdle

\* neither apply_correction_parallel nor run_pipeline is running
CorrectionIdle ==
    /\ p_values = NoMatrix
    /\ method = "bh"
    /\ n_threads = 1
    /\ chunk_rows = None
    /\ n_chunks = 0
    /\ q_values = NoMatrix
    /\ idx = 0
    /\ futures = <<>>
    /\ yieldq = <<>>
    /\ pc = "off"
    /\ error = "none"
    /\ may_raise = FALSE
    /\ written = <<>>
    /\ error_fut = None
    /\ ppc = "off"
    /\ input_pkl = NotATable
    /\ significance_threshold = None
    /\ output_hdf5 = FALSE /\ output_csv = FALSE /\ output_pkl = FALSE
    /\ threshold = None
    /\ chr_col = NoSeries
    /\ rs_col = NoSeries
    /\ pval_cols = <<>>
    /\ hdf5_file = <<>>
    /\ csv_file = <<>>
    /\ pkl_file = <<>>

\* --------------------------------------------------------------------------
\* The driver, apply_correction_parallel
\* --------------------------------------------------------------------------
\* chunk_rows = max(1, int(512_000 // (n * 4)))
AutoChunkRows(n) == Max2(1, 512000 \div (n * 4))

\* chunk_rows without the clamp of line 137
ChunkRows_unclamped(arg, m, n) == IF arg = None THEN AutoChunkRows(n) ELSE arg

\* chunk_rows after lines 134-137
ChunkRows(arg, m, n) == Min2(IF arg = None THEN AutoChunkRows(n) ELSE arg, m)

\* m // chunk_rows, the quotient rounded down
CeilDiv_floor(m, c) == m \div c

\* math.ceil(m / chunk_rows)
CeilDiv(m, c) == (m + c - 1) \div c

\* lo and hi of chunk i
Lo(i, c) == i * c
Hi(i, c, m) == Min2(m, Lo(i, c) + c)

\* np.empty_like(p_values): the shape of p_values, content g
empty_like(p, g) == [m |-> p.m, n |-> p.n, d |-> [r \in Rows(p) |-> [c \in Cols(p) |-> g]]]

\* lines 129-138 without the method check of line 126
EnterError_unchecked(meth, arg, m, n) ==
    IF arg = None /\ n = 0 THEN "ZeroDivisionError"
    ELSE IF ChunkRows(arg, m, n) = 0 THEN "ZeroDivisionError"
    ELSE "none"

\* lines 126-138 with every division by zero reported as a ValueError
EnterError_as_value_error(meth, arg, m, n) ==
    IF meth \notin Methods THEN "ValueError"
    ELSE IF arg = None /\ n = 0 THEN "ValueError"
    ELSE IF ChunkRows(arg, m, n) = 0 THEN "ValueError"
    ELSE "none"

\* the exception of lines 126-138 for these arguments, "none" if there is none:
\* the method check, then 512_000 // (n * 4), then m / chunk_rows
EnterError(meth, arg, m, n) ==
    IF meth \notin Methods THEN "ValueError"
    ELSE IF arg = None /\ n = 0 THEN "ZeroDivisionError"
    ELSE IF ChunkRows(arg, m, n) = 0 THEN "ZeroDivisionError"
    ELSE "none"

\* lines 126-146: validation, chunk sizing, allocation, pool creation
Enter ==
    /\ pc = "call"
    /\ EnterError(method, chunk_rows, p_values.m, p_values.n) = "none"
    /\ chunk_rows' = ChunkRows(chunk_rows, p_values.m, p_values.n)
    /\ n_chunks' = CeilDiv(p_values.m, chunk_rows')
    /\ \E g \in Garbage : q_values' = empty_like(p_values, g)
    /\ written' = [r \in Rows(p_values) |-> 0]
    /\ pc' = "submit"
    /\ UNCHANGED <<p_values, method, n_threads, idx, futures, yieldq, error, may_raise>>
    /\ UNCHANGED <<error_fut, pvars, ovars>>

\* lines 126-138 raising: nothing has been allocated or submitted
EnterRaise ==
    /\ pc = "call"
    /\ EnterError(method, chunk_rows, p_values.m, p_values.n) # "none"
    /\ error' = EnterError(method, chunk_rows, p_values.m, p_values.n)
    /\ pc' = "raised"
    /\ UNCHANGED <<p_values, method, n_threads, chunk_rows, n_chunks, q_values, idx, futures, yieldq, may_raise, written>>
    /\ UNCHANGED <<error_fut, pvars, ovars>>

\* the future of chunk i as exe.submit returns it
NewFuture(i, c, m) ==
    [lo |-> Lo(i, c), hi |-> Hi(i, c, m), state |-> "pending", result |-> NoMatrix, exc |-> FALSE, runs |-> 0, failed_at |-> None]

\* lines 147-152: one iteration of the submission loop
Submit ==
    /\ pc = "submit"
    /\ idx < n_chunks
    /\ futures' = [i \in 0 .. idx |-> IF i = idx THEN NewFuture(idx, chunk_rows, p_values.m) ELSE futures[i]]
    /\ idx' = idx + 1
    /\ UNCHANGED <<p_values, method, n_threads, chunk_rows, n_chunks, q_values, yieldq, pc, error, may_raise, written>>
    /\ UNCHANGED <<error_fut, pvars, ovars>>

Submitted == DOMAIN futures
InState(s) == {i \in Submitted : futures[i].state = s}

\* the work items in the queue, with those whose kernel raised put back
Queued_with_failed == {i \in Submitted : futures[i].state = "pending" \/ (futures[i].state = "finished" /\ futures[i].exc)}

\* the work items in the pool's queue: each is put there once, by exe.submit
Queued == InState("pending")

\* a pool thread takes the oldest queued work item (the work queue is FIFO)
\* and invokes kernel(view)
WorkerStart(i) ==
    /\ i \in Queued
    /\ \A j \in Queued : i <= j
    /\ Cardinality(InState("running")) < n_threads
    /\ futures' = [futures EXCEPT ![i].state = "running", ![i].runs = @ + 1]
    /\ UNCHANGED <<p_values, method, n_threads, chunk_rows, n_chunks, q_values, idx, yieldq, pc, error, may_raise, written>>
    /\ UNCHANGED <<error_fut, pvars, ovars>>

\* a future that finishes while as_completed waits is queued for yielding
Notify(q, i) == IF pc = "collect" THEN Append(q, i) ELSE q

\* a kernel that computes in place, leaving its result in its argument
view_after_in_place(meth, v) == kernel(meth, v)

\* the content of the view p_values[lo:hi] once kernel(view) has run: both
\* kernels build every array they assign to (take_along_axis, np.where,
\* p * m_valid; the out= of np.clip and q[~valid] = nan target those), so
\* the view, which shares its memory with p_values, is left as it was
view_after(meth, v) == v

\* a pool thread that stores its result into q_values[lo:hi] itself
WorkerFinish_writes_output(i) ==
    /\ i \in InState("running")
    /\ futures' = [futures EXCEPT ![i].state = "finished",
                                  ![i].result = kernel(method, View(p_values, futures[i].lo, futures[i].hi))]
    /\ q_values' = AssignRows(q_values, futures[i].lo, futures[i].hi, futures'[i].result)
    /\ yieldq' = Notify(yieldq, i)
    /\ UNCHANGED <<p_values, method, n_threads, chunk_rows, n_chunks, idx, pc, error, may_raise, written>>
    /\ UNCHANGED <<error_fut, pvars, ovars>>

\* the pool thread returns from kernel(view) and sets the future's result
WorkerFinish(i) ==
    /\ i \in InState("running")
    /\ futures' = [futures EXCEPT ![i].state = "finished",
                                  ![i].result = kernel(method, View(p_values, futures[i].lo, futures[i].hi))]
    /\ p_values' = AssignRows(p_values, futures[i].lo, futures[i].hi,
                              view_after(method, View(p_values, futures[i].lo, futures[i].hi)))
    /\ yieldq' = Notify(yieldq, i)
    /\ UNCHANGED <<method, n_threads, chunk_rows, n_chunks, q_values, idx, pc, error, may_raise, written>>
    /\ UNCHANGED <<error_fut, pvars, ovars>>

\* the kernel raises in the pool thread, which sets the future's exception
WorkerRaise(i) ==
    /\ may_raise
    /\ i \in InState("running")
    /\ futures' = [futures EXCEPT ![i].state = "finished", ![i].exc = TRUE,
                                  ![i].failed_at = Cardinality({j \in Submitted : futures[j].exc})]
    /\ p_values' = AssignRows(p_values, futures[i].lo, futures[i].hi,
                              view_after(method, View(p_values, futures[i].lo, futures[i].hi)))
    /\ yieldq' = Notify(yieldq, i)
    /\ UNCHANGED <<method, n_threads, chunk_rows, n_chunks, q_values, idx, pc, error, may_raise, written>>
    /\ UNCHANGED <<error_fut, pvars, ovars>>

\* the sequences that list every element of set S once
Orders(S) ==
    {s \in [1 .. Cardinality(S) -> S] : \A a, b \in 1 .. Cardinality(S) : a # b => s[a] # s[b]}

\* line 154, entry: the loop ends and as_completed snapshots the finished
\* futures, which it yields first, in the arbitrary order of a set
BeginCollect ==
    /\ pc = "submit"
    /\ idx = n_chunks
    /\ yieldq' \in Orders(InState("finished"))
    /\ pc' = "collect"
    /\ UNCHANGED <<p_values, method, n_threads, chunk_rows, n_chunks, q_values, idx, futures, error, may_raise, written>>
    /\ UNCHANGED <<error_fut, pvars, ovars>>

\* the rows next to those already assigned: placement in order of arrival
Target_by_arrival(fut) ==
    LET k == Cardinality(InState("collected"))
    IN  [lo |-> k * chunk_rows, hi |-> k * chunk_rows + (futures[fut].hi - futures[fut].lo)]

\* the rows line 156 assigns for the future fut
Target(fut) == [lo |-> futures[fut].lo, hi |-> futures[fut].hi]

\* lines 154-156: one iteration of the as_completed loop, fut.result() returning
Collect ==
    /\ pc = "collect"
    /\ yieldq # <<>>
    /\ ~futures[Head(yieldq)].exc
    /\ LET fut == Head(yieldq)
           lo  == Target(fut).lo
           hi  == Target(fut).hi
       IN  /\ q_values' = AssignRows(q_values, lo, hi, futures[fut].result)
           /\ written' = [r \in DOMAIN written |-> IF lo <= r /\ r < hi THEN written[r] + 1 ELSE written[r]]
           /\ futures' = [futures EXCEPT ![fut].state = "collected"]
    /\ yieldq' = Tail(yieldq)
    /\ UNCHANGED <<p_values, method, n_threads, chunk_rows, n_chunks, idx, pc, error, may_raise>>
    /\ UNCHANGED <<error_fut, pvars, ovars>>

\* line 156 with fut.result() re-raising the kernel's exception: the loop is
\* left and the with block starts exe.shutdown(wait=True)
CollectRaise ==
    /\ pc = "collect"
    /\ yieldq # <<>>
    /\ futures[Head(yieldq)].exc
    /\ futures' = [futures EXCEPT ![Head(yieldq)].state = "collected"]
    /\ yieldq' = Tail(yieldq)
    /\ error' = "KernelError"
    /\ error_fut' = Head(yieldq)
    /\ pc' = "shutdown"
    /\ UNCHANGED <<p_values, method, n_threads, chunk_rows, n_chunks, q_values, idx, may_raise, written>>
    /\ UNCHANGED <<pvars, ovars>>

\* exe.shutdown(wait=False): nothing is waited for
AllRun_nowait == TRUE

\* what exe.shutdown(wait=True) waits for: no work item queued or running
AllRun == InState("pending") = {} /\ InState("running") = {}

\* exe.shutdown(wait=True) returns once every submitted work item has run;
\* the exception then leaves the driver and the buffer is dropped
ShutdownRaise ==
    /\ pc = "shutdown"
    /\ AllRun
    /\ q_values' = NoMatrix
    /\ pc' = "raised"
    /\ UNCHANGED <<p_values, method, n_threads, chunk_rows, n_chunks, idx, futures, yieldq, error, may_raise, written>>
    /\ UNCHANGED <<error_fut, pvars, ovars>>

\* lines 146, 158: every future has been yielded; the pool shuts down with
\* nothing left to wait for and the buffer is returned
Return ==
    /\ pc = "collect"
    /\ idx = n_chunks
    /\ \A i \in Submitted : futures[i].state = "collected"
    /\ pc' = "returned"
    /\ UNCHANGED <<p_values, method, n_threads, chunk_rows, n_chunks, q_values, idx, futures, yieldq, error, may_raise, written>>
    /\ UNCHANGED <<error_fut, pvars, ovars>>

\* --------------------------------------------------------------------------
\* The pipeline, run_pipeline
\* --------------------------------------------------------------------------
\* lines 287-289: the threshold with `significance_threshold or default_thresh`
Threshold_truthy(meth, st) ==
    IF st = None \/ st = P(0) THEN (IF meth = "bh" THEN P(5) ELSE P(1)) ELSE st

\* lines 287-289: default_thresh and threshold
Threshold(meth, st) ==
    LET default_thresh == IF meth = "bh" THEN P(5) ELSE P(1)
    IN  IF st = None THEN default_thresh ELSE st

\* the column names of a table as a set
ColumnSet(df) == {df.columns[k] : k \in DOMAIN df.columns}

\* load_snp_dataframe checking the columns of whatever was unpickled
LoadError_schema_only(obj) ==
    IF ~({"chr", "rs"} \subseteq ColumnSet(obj)) THEN "ValueError" ELSE "none"

\* the exception of load_snp_dataframe for the unpickled object, if any
LoadError(obj) ==
    IF obj.kind # "DataFrame" THEN "TypeError"
    ELSE IF ~({"chr", "rs"} \subseteq ColumnSet(obj)) THEN "ValueError"
    ELSE "none"

\* df[name]: the column with the table's row index
Series(df, name) == [index |-> df.index, values |-> df.data[name]]

\* [c for c in df.columns if c not in ("chr", "rs")]
pval_columns(df) == SelectSeq(df.columns, LAMBDA c : c \notin {"chr", "rs"})

\* df[cols].to_numpy(): the cells by position
to_numpy(df, cols) ==
    [m |-> Cardinality(DOMAIN df.index), n |-> Len(cols),
     d |-> [r \in DOMAIN df.index |-> [c \in 0 .. (Len(cols) - 1) |-> df.data[cols[c + 1]][r]]]]

\* lines 287-291, load_snp_dataframe returning the table
Load ==
    /\ ppc = "start"
    /\ LoadError(input_pkl) = "none"
    /\ threshold' = Threshold(method, significance_threshold)
    /\ ppc' = "loaded"
    /\ UNCHANGED <<p_values, method, n_threads, chunk_rows, n_chunks, q_values, idx, futures, yieldq, pc, error, may_raise, written, error_fut>>
    /\ UNCHANGED <<input_pkl, significance_threshold, output_hdf5, output_csv, output_pkl, chr_col, rs_col, pval_cols, hdf5_file, csv_file, pkl_file, ovars>>

\* lines 287-291, load_snp_dataframe raising: the exception leaves run_pipeline
LoadRaise ==
    /\ ppc = "start"
    /\ LoadError(input_pkl) # "none"
    /\ threshold' = Threshold(method, significance_threshold)
    /\ error' = LoadError(input_pkl)
    /\ ppc' = "failed"
    /\ UNCHANGED <<p_values, method, n_threads, chunk_rows, n_chunks, q_values, idx, futures, yieldq, pc, may_raise, written, error_fut>>
    /\ UNCHANGED <<input_pkl, significance_threshold, output_hdf5, output_csv, output_pkl, chr_col, rs_col, pval_cols, hdf5_file, csv_file, pkl_file, ovars>>

\* lines 292-296: extract_pvalue_matrix, then the call of the driver with
\* method=correction_method, n_threads=n_threads and chunk_rows left to None
Extract ==
    /\ ppc = "loaded"
    /\ chr_col' = Series(input_pkl, "chr")
    /\ rs_col' = Series(input_pkl, "rs")
    /\ pval_cols' = pval_columns(input_pkl)
    /\ p_values' = to_numpy(input_pkl, pval_cols')
    /\ pc' = "call"
    /\ ppc' = "correct"
    /\ UNCHANGED <<method, n_threads, chunk_rows, n_chunks, q_values, idx, futures, yieldq, error, may_raise, written, error_fut>>
    /\ UNCHANGED <<input_pkl, significance_threshold, output_hdf5, output_csv, output_pkl, threshold, hdf5_file, csv_file, pkl_file, ovars>>

\* the driver has left, whether by returning or by raising
CorrectionLeft == pc \in {"returned", "raised"}

\* line 294 has returned the corrected matrix: control reaches line 298
CorrectionDone == pc = "returned"

\* lines 294-296 with the driver raising: the exception leaves run_pipeline
CorrectionRaise ==
    /\ ppc = "correct"
    /\ pc = "raised"
    /\ ppc' = "failed"
    /\ UNCHANGED <<p_values, method, n_threads, chunk_rows, n_chunks, q_values, idx, futures, yieldq, pc, error, may_raise, written, error_fut>>
    /\ UNCHANGED <<input_pkl, significance_threshold, output_hdf5, output_csv, output_pkl, threshold, chr_col, rs_col, pval_cols, hdf5_file, csv_file, pkl_file, ovars>>

\* save_results_to_hdf5: the datasets and the method attribute of the file
\* (the positional values of the two Series; the creation time is left out)
hdf5_content(chrs, rs, q, cols, meth) ==
    [chr |-> chrs.values, rs |-> rs.values, q_values |-> q, column_names |-> cols, method |-> meth]

\* lines 299-301 with run_pipeline returning when no HDF5 path is given
SaveHdf5_or_return ==
    /\ ppc = "correct"
    /\ CorrectionDone
    /\ hdf5_file' = IF output_hdf5 THEN <<hdf5_content(chr_col, rs_col, q_values, pval_cols, method)>> ELSE hdf5_file
    /\ ppc' = IF output_hdf5 THEN "csv" ELSE "done"
    /\ UNCHANGED <<p_values, method, n_threads, chunk_rows, n_chunks, q_values, idx, futures, yieldq, pc, error, may_raise, written, error_fut>>
    /\ UNCHANGED <<input_pkl, significance_threshold, output_hdf5, output_csv, output_pkl, threshold, chr_col, rs_col, pval_cols, csv_file, pkl_file, ovars>>

\* lines 299-301
SaveHdf5 ==
    /\ ppc = "correct"
    /\ CorrectionDone
    /\ hdf5_file' = IF output_hdf5 THEN <<hdf5_content(chr_col, rs_col, q_values, pval_cols, method)>> ELSE hdf5_file
    /\ ppc' = "csv"
    /\ UNCHANGED <<p_values, method, n_threads, chunk_rows, n_chunks, q_values, idx, futures, yieldq, pc, error, may_raise, written, error_fut>>
    /\ UNCHANGED <<input_pkl, significance_threshold, output_hdf5, output_csv, output_pkl, threshold, chr_col, rs_col, pval_cols, csv_file, pkl_file, ovars>>

\* q <= threshold
less_or_equal(x, thr) == ~isnan(x) /\ x <= thr

\* q < threshold of line 232: False for NaN
less(x, thr) == ~isnan(x) /\ x < thr

\* np.where(sig_mask): the positions (row, col) of the mask
where_sig(q, thr) == {h \in Rows(q) \X Cols(q) : less(q.d[h[1]][h[2]], thr)}

\* the record of lines 239-241 for position h
Record(rs, q, cols, h) ==
    [snp_name |-> rs.values[h[1]], pvalue_column |-> cols[h[2] + 1], q_value |-> q.d[h[1]][h[2]]]

\* the records left in whatever order they come
unsorted(recs) == TRUE

\* sort_values("q_value"): non-decreasing q_value
sorted(recs) == \A a, b \in DOMAIN recs : a < b => recs[a].q_value <= recs[b].q_value

\* the frames sort_values may return: the default sort is not stable, so
\* records of equal q_value come in any order
sort_values(rs, q, cols, H) ==
    {recs \in {[k \in DOMAIN o |-> Record(rs, q, cols, o[k])] : o \in Orders(H)} : sorted(recs)}

\* lines 303-306, export_significant_results
ExportCsv ==
    /\ ppc = "csv"
    /\ LET H == where_sig(q_values, threshold)
       IN  IF output_csv /\ H # {}
           THEN \E recs \in sort_values(rs_col, q_values, pval_cols, H) : csv_file' = <<recs>>
           ELSE csv_file' = csv_file
    /\ ppc' = "pkl"
    /\ UNCHANGED <<p_values, method, n_threads, chunk_rows, n_chunks, q_values, idx, futures, yieldq, pc, error, may_raise, written, error_fut>>
    /\ UNCHANGED <<input_pkl, significance_threshold, output_hdf5, output_csv, output_pkl, threshold, chr_col, rs_col, pval_cols, hdf5_file, pkl_file, ovars>>

\* what pandas puts where a label has no value
MissingId == "nan"

\* the values of a Series as DataFrame.insert aligns them on the frame's
\* index 0..M-1: by label, missing where the Series has no such label
reindex(series, rows, missing) ==
    [i \in rows |->
        IF \E k \in DOMAIN series.index : series.index[k] = i
        THEN series.values[CHOOSE k \in DOMAIN series.index : series.index[k] = i]
        ELSE missing]

\* columns with the two identifier columns put behind the test columns
insert_last(cols) == cols \o <<"chr", "rs">>

\* the columns after insert(0, "rs", ..) and insert(0, "chr", ..)
insert_front(cols) == <<"chr", "rs">> \o cols

\* build_corrected_dataframe
build_corrected_dataframe(chrs, rs, q, cols) ==
    DataFrame(insert_front(cols), [i \in Rows(q) |-> i],
              [c \in {"chr", "rs"} \cup {cols[k] : k \in DOMAIN cols} |->
                  CASE c = "chr" -> reindex(chrs, Rows(q), NaN)
                    [] c = "rs" -> reindex(rs, Rows(q), MissingId)
                    [] OTHER -> [i \in Rows(q) |-> q.d[i][(CHOOSE k \in DOMAIN cols : cols[k] = c) - 1]]])

\* lines 308-313: the last step of run_pipeline
DumpPkl ==
    /\ ppc = "pkl"
    /\ pkl_file' = IF output_pkl THEN <<build_corrected_dataframe(chr_col, rs_col, q_values, pval_cols)>> ELSE pkl_file
    /\ ppc' = "done"
    /\ UNCHANGED <<p_values, method, n_threads, chunk_rows, n_chunks, q_values, idx, futures, yieldq, pc, error, may_raise, written, error_fut>>
    /\ UNCHANGED <<input_pkl, significance_threshold, output_hdf5, output_csv, output_pkl, threshold, chr_col, rs_col, pval_cols, hdf5_file, csv_file, ovars>>

Next ==
    \/ Enter
    \/ EnterRaise
    \/ Submit
    \/ \E i \in Submitted : WorkerStart(i)
    \/ \E i \in Submitted : WorkerFinish(i)
    \/ \E i \in Submitted : WorkerRaise(i)
    \/ BeginCollect
    \/ Collect
    \/ CollectRaise
    \/ ShutdownRaise
    \/ Return
    \/ Load
    \/ LoadRaise
    \/ Extract
    \/ CorrectionRaise
    \/ SaveHdf5
    \/ ExportCsv
    \/ DumpPkl

Spec == Init /\ [][Next]_vars

\* --------------------------------------------------------------------------
\* Screening, mediation_tools/screen_proteins.py
\* --------------------------------------------------------------------------
\* A table is a record [chr_dtype, columns, rows]: columns the list of column
\* names, rows the list of rows, each row the list of its values in column
\* order.  q-values and PIPs are in thousandths.  An rs identifier is a
\* number that stands for a string whose order among the strings is the
\* order of the numbers.

\* largest number of rows of an input table
MaxRows == 2
\* largest number of protein columns
MaxProteins == 2

\* BONFERRONI_THRESHOLDS, in thousandths
BONFERRONI_THRESHOLDS == <<50, 10>>
\* PIP_THRESHOLDS, in thousandths
PIP_THRESHOLDS == <<900, 850, 800>>

\* the parameter grid in the order main walks it
ParameterGrid ==
    [g \in 1 .. Len(BONFERRONI_THRESHOLDS) * Len(PIP_THRESHOLDS) |->
        <<BONFERRONI_THRESHOLDS[((g - 1) \div Len(PIP_THRESHOLDS)) + 1],
          PIP_THRESHOLDS[((g - 1) % Len(PIP_THRESHOLDS)) + 1]>>]

\* the (chr, rs) pairs of the SNPs
SnpKeys == <<(<<1, 1>>), (<<1, 2>>), (<<2, 1>>)>>

\* the protein columns
ProteinPool == <<"A1BG", "ACE", "APOE">>
Proteins(k) == SubSeq(ProteinPool, 1, Min2(k, Len(ProteinPool)))

\* the q-values and PIPs a cell can hold
QPool == <<5, 10, 30, 50, NaN>>
PipPool == <<950, 900, 870, 850, NaN, 820, 800>>

\* the q-value (kind "q") or the PIP (kind "pip") of SNP s and protein j in
\* data set o
CellOf(kind, o, s, j) ==
    LET slot == (s - 1) * MaxProteins + (j - 1)
    IN  IF kind = "q"
        THEN QPool[((o + slot) % Len(QPool)) + 1]
        ELSE PipPool[((2 * o + 3 * slot) % Len(PipPool)) + 1]

\* every list without repetition of at most n of the SNPs 1..Len(SnpKeys)
SnpLists(n) ==
    {l \in UNION {[1 .. len -> 1 .. Len(SnpKeys)] : len \in 0 .. n} :
        \A a, b \in DOMAIN l : a # b => l[a] # l[b]}

\* the pickled table of data set o that lists the SNPs of l; the chr column
\* holds integers (dtype "int64") or the same numbers as text ("object")
PickledTable(dtype, names, l, kind, o) ==
    [chr_dtype |-> dtype,
     columns   |-> <<"chr", "rs">> \o names,
     rows      |-> [i \in DOMAIN l |->
                      SnpKeys[l[i]] \o [j \in DOMAIN names |-> CellOf(kind, o, l[i], j)]]]

\* tables whose header load_and_align rejects
WithColumns(t, cols) == [t EXCEPT !.columns = cols]
BadHeaders == {<<"rs", "chr">>, <<"chrom", "rs">>, <<"chr">>}

\* the first n entries of a list, list[:n], and the rest, list[n:]
Prefix(s, n) == SubSeq(s, 1, Min2(n, Len(s)))
Suffix(s, n) == SubSeq(s, n + 1, Len(s))

\* number of protein columns of a table
NProteins(t) == Len(Suffix(t.columns, 2))

\* astype("int64") of the chr column, lines 51-52: text becomes the number it spells
astype_int64(t) == [t EXCEPT !.chr_dtype = "int64"]

\* the index entry of a row after set_index(["chr", "rs"])
KeyOf(t, row) == <<t.chr_dtype, row[1], row[2]>>

\* order of the index entries: by chr, then by rs
KeyLess(a, b) == a[1] < b[1] \/ (a[1] = b[1] /\ a[2] < b[2])

\* the list s without its i-th entry
Without(s, i) == [k \in 1 .. Len(s) - 1 |-> IF k < i THEN s[k] ELSE s[k + 1]]

\* sort_index, lines 57-58 (the keys of a table are distinct)
RECURSIVE sort_index(_)
sort_index(rows) ==
    IF rows = <<>> THEN <<>>
    ELSE LET i == CHOOSE i \in DOMAIN rows : \A k \in DOMAIN rows : ~KeyLess(rows[k], rows[i])
         IN  <<rows[i]>> \o sort_index(Without(rows, i))

\* the index of a table
IndexOf(t) == [i \in DOMAIN t.rows |-> KeyOf(t, t.rows[i])]

\* Index.intersection, line 60: the entries of a that are in b, in the order of a
intersection(a, b) ==
    LET InB(k) == \E i \in DOMAIN b : b[i] = k
    IN  SelectSeq(a, InB)

\* .loc[common_idx].reset_index(), lines 65-66: the rows of the entries, in their order
loc(t, common_idx) ==
    [t EXCEPT !.rows =
        [i \in DOMAIN common_idx |->
            t.rows[CHOOSE r \in DOMAIN t.rows : KeyOf(t, t.rows[r]) = common_idx[i]]]]

\* the two tables after lines 51-58
Indexed(t) == [astype_int64(t) EXCEPT !.rows = sort_index(t.rows)]

\* common_idx of line 60
CommonIdx(b, p) == intersection(IndexOf(Indexed(b)), IndexOf(Indexed(p)))

\* the exception load_and_align raises on the two tables ("none" = none)
LoadAlignError_headers_only(b, p) ==
    IF \/ Prefix(b.columns, 2) # <<"chr", "rs">>
       \/ Prefix(p.columns, 2) # <<"chr", "rs">>
    THEN "ValueError: first two columns"
    ELSE "none"
LoadAlignError(b, p) ==
    IF \/ Prefix(b.columns, 2) # <<"chr", "rs">>
       \/ Prefix(p.columns, 2) # <<"chr", "rs">>
    THEN "ValueError: first two columns"
    ELSE IF Suffix(b.columns, 2) # Suffix(p.columns, 2)
    THEN "ValueError: protein names differ"
    ELSE IF CommonIdx(b, p) = <<>>
    THEN "ValueError: no overlapping pairs"
    ELSE "none"

\* main is called on the two pickles: two tables of one data set, each
\* listing some of the SNPs in some order, or two tables with other headers
ScreenInit ==
    /\ CorrectionIdle
    /\ AggIdle
    /\ s_pc = "start"
    /\ bonf_df = NoTable /\ pip_df = NoTable
    /\ grid_pos = 0
    /\ tasks = <<>>
    /\ records = <<>>
    /\ hits_df = <<>>
    /\ csv_files = <<>>
    /\ s_error = "none"
    /\ \E o \in 0 .. Len(QPool) - 1, k \in 1 .. MaxProteins :
        \/ /\ bonf_pkl \in {PickledTable(d, Proteins(k), l, "q", o) :
                                d \in {"int64", "object"}, l \in SnpLists(MaxRows)}
           /\ pip_pkl \in {PickledTable(d, Proteins(k), l, "pip", o) :
                                d \in {"int64", "object"}, l \in SnpLists(MaxRows)}
        \/ /\ bonf_pkl \in {WithColumns(PickledTable("int64", Proteins(k), <<2, 1>>, "q", o), h \o c) :
                                h \in BadHeaders \cup {<<"chr", "rs">>},
                                c \in {Proteins(k), <<>>}}
           /\ pip_pkl \in {WithColumns(PickledTable("int64", Proteins(k), <<1, 2>>, "pip", o), h \o c) :
                                h \in BadHeaders \cup {<<"chr", "rs">>},
                                c \in {Proteins(k), <<"A2M">>}}

\* main, line 134: load_and_align returns the two aligned tables, and its
\* locals are gone
LoadAndAlign ==
    /\ s_pc = "start"
    /\ LoadAlignError(bonf_pkl, pip_pkl) = "none"
    /\ bonf_df' = loc(Indexed(bonf_pkl), CommonIdx(bonf_pkl, pip_pkl))
    /\ pip_df' = loc(Indexed(pip_pkl), CommonIdx(bonf_pkl, pip_pkl))
    /\ bonf_pkl' = NoTable
    /\ pip_pkl' = NoTable
    /\ s_pc' = "grid"
    /\ UNCHANGED <<grid_pos, tasks, records, hits_df, csv_files, s_error>>
    /\ UNCHANGED <<dvars, pvars, avars>>

\* main, line 134: load_and_align raises, and main with it (the traceback
\* keeps the locals)
LoadAndAlignRaise ==
    /\ s_pc = "start"
    /\ LoadAlignError(bonf_pkl, pip_pkl) # "none"
    /\ s_error' = LoadAlignError(bonf_pkl, pip_pkl)
    /\ s_pc' = "raised"
    /\ UNCHANGED <<bonf_pkl, pip_pkl, bonf_df, pip_df, grid_pos, tasks, records, hits_df, csv_files>>
    /\ UNCHANGED <<dvars, pvars, avars>>

\* bonf[protein] < bonf_thr and pip[protein] > pip_thr: a comparison with NaN is False
below(x, thr) == x # NaN /\ x < thr
above_or_equal(x, thr) == x # NaN /\ x >= thr
above(x, thr) == x # NaN /\ x > thr

\* mask of line 81, per row position
mask(bonf, pip, j, bonf_thr, pip_thr) ==
    [r \in DOMAIN bonf.rows |->
        below(bonf.rows[r][2 + j], bonf_thr) /\ above(pip.rows[r][2 + j], pip_thr)]

\* _collect_hits_for_protein for the j-th protein column, lines 81-92
collect_hits_for_protein(j, bonf, pip, bonf_thr, pip_thr) ==
    LET msk == mask(bonf, pip, j, bonf_thr, pip_thr)
        Hit(r) == msk[r]
        hit_rows == SelectSeq([r \in DOMAIN bonf.rows |-> r], Hit)
    IN  [i \in DOMAIN hit_rows |->
            [snp_name |-> bonf.rows[hit_rows[i]][2],
             protein  |-> bonf.columns[2 + j],
             q_value  |-> bonf.rows[hit_rows[i]][2 + j],
             pip      |-> pip.rows[hit_rows[i]][2 + j]]]

\* the threshold pair of the current iteration of main
bonf_thr == ParameterGrid[grid_pos][1]
pip_thr == ParameterGrid[grid_pos][2]

\* main line 139, screen_hits lines 106-114: the next pair; one task per protein column
ScreenSubmit ==
    /\ s_pc = "grid"
    /\ grid_pos < Len(ParameterGrid)
    /\ grid_pos' = grid_pos + 1
    /\ records' = <<>>
    /\ tasks' = [j \in 1 .. NProteins(bonf_df) |-> [state |-> "pending", result |-> <<>>]]
    /\ s_pc' = "screening"
    /\ UNCHANGED <<bonf_pkl, pip_pkl, bonf_df, pip_df, hits_df, csv_files, s_error>>
    /\ UNCHANGED <<dvars, pvars, avars>>

\* a pool thread runs the task of protein column j to its end
ProteinTask(j) ==
    /\ tasks[j].state = "pending"
    /\ tasks' = [tasks EXCEPT ![j] =
                    [state  |-> "done",
                     result |-> collect_hits_for_protein(j, bonf_df, pip_df, bonf_thr, pip_thr)]]
    /\ UNCHANGED <<s_pc, bonf_pkl, pip_pkl, bonf_df, pip_df, grid_pos, records, hits_df, csv_files, s_error>>
    /\ UNCHANGED <<dvars, pvars, avars>>

\* lines 115-116: as_completed yields a finished task, the driver extends records
ScreenCollect(j) ==
    /\ s_pc = "screening"
    /\ tasks[j].state = "done"
    /\ tasks' = [tasks EXCEPT ![j].state = "collected"]
    /\ records' = records \o tasks[j].result
    /\ UNCHANGED <<s_pc, bonf_pkl, pip_pkl, bonf_df, pip_df, grid_pos, hits_df, csv_files, s_error>>
    /\ UNCHANGED <<dvars, pvars, avars>>

\* lines 116-119: the loop is over, the pool shuts down, the frame is returned
ScreenReturn ==
    /\ s_pc = "screening"
    /\ \A j \in DOMAIN tasks : tasks[j].state = "collected"
    /\ hits_df' = records
    /\ s_pc' = "export"
    /\ UNCHANGED <<bonf_pkl, pip_pkl, bonf_df, pip_df, grid_pos, tasks, records, csv_files, s_error>>
    /\ UNCHANGED <<dvars, pvars, avars>>

\* format(x, ".3g") of a number of thousandths below 1: its decimals without
\* the trailing zeros, as <<digits, number of decimals>>
RECURSIVE StripZeros(_, _)
StripZeros(x, d) == IF d > 0 /\ x % 10 = 0 THEN StripZeros(x \div 10, d - 1) ELSE <<x, d>>
format_3g(x) == StripZeros(x, 3)

\* fname of line 126
fname(b_thr, p_thr) == <<"bonferroni_", format_3g(b_thr), "-pip_", format_3g(p_thr), ".csv">>

\* to_csv(path): the file is created or replaced
to_csv(files, path, df) ==
    [f \in DOMAIN files \cup {path} |-> IF f = path THEN df ELSE files[f]]

\* main line 145, export_csv lines 126-129; then the next pair, or the end of main
ExportHitsCsv ==
    /\ s_pc = "export"
    /\ csv_files' = to_csv(csv_files, fname(bonf_thr, pip_thr), hits_df)
    /\ s_pc' = IF grid_pos = Len(ParameterGrid) THEN "done" ELSE "grid"
    /\ UNCHANGED <<bonf_pkl, pip_pkl, bonf_df, pip_df, grid_pos, tasks, records, hits_df, s_error>>
    /\ UNCHANGED <<dvars, pvars, avars>>

ScreenNext ==
    \/ LoadAndAlign
    \/ LoadAndAlignRaise
    \/ ScreenSubmit
    \/ \E j \in DOMAIN tasks : ProteinTask(j)
    \/ \E j \in DOMAIN tasks : ScreenCollect(j)
    \/ ScreenReturn
    \/ ExportHitsCsv

ScreenSpec == ScreenInit /\ [][ScreenNext]_vars

\* --------------------------------------------------------------------------
\* Upstream aggregation, mediation_tools/p_snps_protein.py
\* (pip_snps_protein.py has the same steps under other names)
\* --------------------------------------------------------------------------
\* A frame is a record [columns, data]: columns the list of column names,
\* data[name] the list of the column's values by row.  An association file
\* is a record [exists, readable, assoc]: assoc the mapping rs -> p_wald
\* that dict(zip(summ['rs'], summ['p_wald'])) builds from a readable file.

\* largest number of phenotype directories
MaxPhenotypes == 3

\* the names a phenotype directory can have, in sorted order
PhenotypePool == <<"ALB", "CRP", "IL6", "TNF">>

\* the BIM files: the <<chr, rs>> of their rows
BimFiles == {<<>>, <<(<<1, 1>>)>>, <<(<<1, 1>>), (<<1, 2>>)>>}

\* the mappings a readable file gives: rs -> p_wald, in thousandths
Mappings ==
    {<<>>, 1 :> 20, 1 :> NaN, 3 :> 30, 2 :> 40, (1 :> 20) @@ (2 :> NaN), (1 :> 5) @@ (2 :> 10)}

\* no association file in the phenotype's directory
NoFile == [exists |-> FALSE, readable |-> FALSE, assoc |-> <<>>]
\* a file that gzip or read_csv cannot read, or without the expected columns
Unreadable == [exists |-> TRUE, readable |-> FALSE, assoc |-> <<>>]
\* a file that reads as the mapping m
Readable(m) == [exists |-> TRUE, readable |-> TRUE, assoc |-> m]

AssocFiles == {NoFile, Unreadable} \cup {Readable(m) : m \in Mappings}

\* list.sort() of the directory names
sort(names) ==
    LET In(x) == x \in names
    IN  SelectSeq(PhenotypePool, In)

\* run is called on a BIM file and a directory of at most MaxPhenotypes phenotypes
AggInit ==
    /\ CorrectionIdle
    /\ ScreenIdle
    /\ a_pc = "start"
    /\ snp_data \in BimFiles
    /\ \E dirs \in SUBSET {PhenotypePool[i] : i \in DOMAIN PhenotypePool} :
        /\ Cardinality(dirs) <= MaxPhenotypes
        /\ assoc_files \in [dirs -> AssocFiles]
    /\ phenotypes = <<>>
    /\ p_snps = NoFrame
    /\ ph_i = 0
    /\ successful_phenotypes = <<>>
    /\ failed_phenotypes = <<>>
    /\ removed_columns = <<>>
    /\ output_pickle = <<>>

\* initialize_dataframe, lines 92-116: chr, rs and one all-NaN column per phenotype
initialize_dataframe(snps, phens) ==
    [columns |-> <<"chr", "rs">> \o phens,
     data    |-> [c \in {"chr", "rs"} \cup {phens[i] : i \in DOMAIN phens} |->
                    IF c = "chr" THEN [r \in DOMAIN snps |-> snps[r][1]]
                    ELSE IF c = "rs" THEN [r \in DOMAIN snps |-> snps[r][2]]
                    ELSE [r \in DOMAIN snps |-> NaN]]]

\* run, lines 287-293: load_snp_data, get_phenotype_columns, initialize_dataframe
Initialize ==
    /\ a_pc = "start"
    /\ phenotypes' = sort(DOMAIN assoc_files)
    /\ p_snps' = initialize_dataframe(snp_data, sort(DOMAIN assoc_files))
    /\ a_pc' = "loop"
    /\ UNCHANGED <<snp_data, assoc_files, ph_i, successful_phenotypes, failed_phenotypes,
                   removed_columns, output_pickle>>
    /\ UNCHANGED <<dvars, pvars, svars>>

\* load_phenotype_associations, lines 118-169: <<>> is None, <<m>> the dict m
load_phenotype_associations(file) ==
    IF ~file.exists THEN <<>>
    ELSE IF ~file.readable THEN <<>>
    ELSE <<file.assoc>>

\* if rs_to_p_wald: None and the empty dict are both false
truthy(ret) == ret # <<>> /\ DOMAIN ret[1] # {}

\* p_snps['rs'].map(rs_to_p_wald), line 191: NaN for an rs the dict lacks
map(rs, dict) == [r \in DOMAIN rs |-> IF rs[r] \in DOMAIN dict THEN dict[rs[r]] ELSE NaN]

\* process_all_phenotypes, lines 184-195: one iteration of the loop
ProcessPhenotype ==
    /\ a_pc = "loop"
    /\ ph_i < Len(phenotypes)
    /\ LET phenotype == phenotypes[ph_i + 1]
           rs_to_p_wald == load_phenotype_associations(assoc_files[phenotype])
       IN  IF truthy(rs_to_p_wald)
           THEN /\ p_snps' = [p_snps EXCEPT !.data[phenotype] = map(p_snps.data["rs"], rs_to_p_wald[1])]
                /\ successful_phenotypes' = Append(successful_phenotypes, phenotype)
                /\ UNCHANGED failed_phenotypes
           ELSE /\ failed_phenotypes' = Append(failed_phenotypes, phenotype)
                /\ UNCHANGED <<p_snps, successful_phenotypes>>
    /\ ph_i' = ph_i + 1
    /\ UNCHANGED <<a_pc, snp_data, phenotypes, assoc_files, removed_columns, output_pickle>>
    /\ UNCHANGED <<dvars, pvars, svars>>

\* isna().all() of one column, line 219 (True for a column without rows)
isna_any(col) == \E r \in DOMAIN col : col[r] = NaN
isna_all(col) == \A r \in DOMAIN col : col[r] = NaN

\* clean_dataframe, lines 219-223: na_columns and the frame without them
na_columns(df) ==
    LET AllNa(c) == isna_all(df.data[c])
    IN  SelectSeq(df.columns, AllNa)
drop_na_columns(df) ==
    LET Kept(c) == ~isna_all(df.data[c])
        kept == SelectSeq(df.columns, Kept)
    IN  [columns |-> kept,
         data    |-> [c \in {kept[i] : i \in DOMAIN kept} |-> df.data[c]]]

\* run, lines 296-310: the loop is over; clean_dataframe, to_pickle, the summary
CleanAndSave ==
    /\ a_pc = "loop"
    /\ ph_i = Len(phenotypes)
    /\ removed_columns' = na_columns(p_snps)
    /\ output_pickle' = <<drop_na_columns(p_snps)>>
    /\ a_pc' = "done"
    /\ UNCHANGED <<snp_data, phenotypes, assoc_files, p_snps, ph_i, successful_phenotypes,
                   failed_phenotypes>>
    /\ UNCHANGED <<dvars, pvars, svars>>

AggNext ==
    \/ Initialize
    \/ ProcessPhenotype
    \/ CleanAndSave

AggSpec == AggInit /\ [][AggNext]_vars

\* --------------------------------------------------------------------------
\* Properties
\* --------------------------------------------------------------------------
Returned == pc = "returned"

\* the non-missing columns of a row
ValidCols(row) == {c \in DOMAIN row : ~isnan(row[c])}

\* C1: when the driver returns, for either method, the output has the shape
\* of the input, and an output entry is missing exactly where the input
\* entry at the same position is missing.
ShapeAndMissingPreserved ==
    Returned =>
        /\ q_values.m = p_values.m
        /\ q_values.n = p_values.n
        /\ DOMAIN q_values.d = Rows(p_values)
        /\ \A r \in Rows(p_values) :
              /\ DOMAIN q_values.d[r] = Cols(p_values)
              /\ \A c \in Cols(p_values) : isnan(q_values.d[r][c]) <=> isnan(p_values.d[r][c])

\* a returned run over several rows and columns whose input has both a
\* missing and a non-missing entry
ShapeAndMissingWitness ==
    /\ Returned
    /\ p_values.m >= 2
    /\ p_values.n >= 2
    /\ \E r \in Rows(p_values) : \E a, b \in Cols(p_values) :
          /\ isnan(p_values.d[r][a]) /\ isnan(q_values.d[r][a])
          /\ ~isnan(p_values.d[r][b]) /\ ~isnan(q_values.d[r][b])

\* C2: chunk-invariance: the matrix the driver returns equals the result of
\* one call of the kernel on the whole matrix, for every chunk_rows and
\* every number of threads.
ChunkInvariance ==
    Returned => q_values = kernel(method, p_values)

\* a returned run cut into several chunks, one of them of two rows that
\* differ in their number of missing entries
ChunkInvarianceWitness ==
    /\ Returned
    /\ n_chunks >= 2
    /\ \E i \in Submitted :
          /\ futures[i].hi - futures[i].lo >= 2
          /\ cnt(p_values)[futures[i].lo] # cnt(p_values)[futures[i].lo + 1]
    /\ q_values = kernel(method, p_values)

\* the rows of the range of future i
Range(i) == {r \in Rows(p_values) : futures[i].lo <= r /\ r < futures[i].hi}

\* C3: when the driver returns, the row ranges it dispatched are non-empty,
\* pairwise disjoint and cover rows 0..M-1, and line 156 has assigned every
\* row of the output exactly once.
RangesPartitionRows ==
    Returned =>
        /\ Submitted = 0 .. (n_chunks - 1)
        /\ \A i \in Submitted : 0 <= futures[i].lo /\ futures[i].lo < futures[i].hi /\ futures[i].hi <= p_values.m
        /\ \A i, j \in Submitted : i # j => Range(i) \cap Range(j) = {}
        /\ UNION {Range(i) : i \in Submitted} = Rows(p_values)
        /\ \A r \in Rows(p_values) : written[r] = 1

\* a returned run whose last chunk is shorter than the others
RangesPartitionWitness ==
    /\ Returned
    /\ n_chunks >= 2
    /\ futures[n_chunks - 1].hi - futures[n_chunks - 1].lo < chunk_rows
    /\ \A r \in Rows(p_values) : written[r] = 1

\* the output assembled chunk by chunk in submission order, chunks 0..i
RECURSIVE InOrder(_)
InOrder(i) ==
    IF i < 0 THEN empty_like(p_values, NaN)
    ELSE AssignRows(InOrder(i - 1), futures[i].lo, futures[i].hi,
                    kernel(method, View(p_values, futures[i].lo, futures[i].hi)))

\* C4: in every state, the result of every future the loop has consumed sits
\* at rows lo..hi-1 of the output, whatever the order of completion; and the
\* matrix returned is the one assembled in submission order.
PlacementByRange ==
    /\ \A i \in InState("collected") :
          ~futures[i].exc /\ pc \in {"collect", "returned"}
              => View(q_values, futures[i].lo, futures[i].hi) = futures[i].result
    /\ Returned => q_values = InOrder(n_chunks - 1)

\* a later chunk has been copied while an earlier one is still outstanding,
\* the two having different results
PlacementWitness ==
    /\ pc = "collect"
    /\ \E i, j \in Submitted :
          /\ i < j
          /\ futures[j].state = "collected"
          /\ futures[i].state # "collected"
          /\ View(q_values, futures[j].lo, futures[j].hi) = futures[j].result
          /\ p_values.d[futures[i].lo] # p_values.d[futures[j].lo]

\* the least element of a non-empty set of numbers
SetMin(S) == CHOOSE x \in S : \A y \in S : x <= y

\* rank (1-based) of the value at column c among the non-missing values of
\* the row, equal values ranked in column order
RankOf(row, c) ==
    1 + Cardinality({b \in ValidCols(row) : row[b] < row[c] \/ (row[b] = row[c] /\ b < c)})

\* p_(j): the non-missing value of rank j
ValueAtRank(row, j) == row[CHOOSE c \in ValidCols(row) : RankOf(row, c) = j]

\* p_(j) * cnt / j
RawAtRank(row, j) ==
    IF ValueAtRank(row, j) = Inf THEN Inf
    ELSE (ValueAtRank(row, j) * Cardinality(ValidCols(row))) \div j

\* min(1, max(0, min over j in k..cnt of p_(j) * cnt / j)) for k the rank of column c
BhReference(row, c) ==
    Min2(One, Max2(0, SetMin({RawAtRank(row, j) : j \in RankOf(row, c) .. Cardinality(ValidCols(row))})))

\* C5: BH reference result: under method bh the returned value at every
\* non-missing position equals min(1, max(0, min_{j >= k} p_(j) * cnt / j))
\* for k the rank of the position's value; the row [0.01, 0.02, 0.03, 0.20]
\* gives [0.04, 0.04, 0.04, 0.20].
BhReferenceResult ==
    Returned /\ method = "bh" =>
        \A r \in Rows(p_values) :
            /\ \A c \in ValidCols(p_values.d[r]) : q_values.d[r][c] = BhReference(p_values.d[r], c)
            /\ p_values.d[r] = RowOf(<<1, 2, 3, 20>>) => q_values.d[r] = RowOf(<<4, 4, 4, 20>>)

\* the scenario row has been corrected by BH
BhReferenceWitness ==
    /\ Returned
    /\ method = "bh"
    /\ p_values.d[0] = RowOf(<<1, 2, 3, 20>>)
    /\ q_values.d[0] = RowOf(<<4, 4, 4, 20>>)

\* C6: Bonferroni reference result: under method bonferroni the returned
\* value at every non-missing position with p in [0, 1] equals
\* min(1, p * cnt), cnt the number of non-missing entries of that row alone;
\* the row [0.01, 0.02, 0.03, 0.20] gives [0.04, 0.08, 0.12, 0.80].
BonferroniReferenceResult ==
    Returned /\ method = "bonferroni" =>
        \A r \in Rows(p_values) :
            /\ \A c \in ValidCols(p_values.d[r]) :
                  0 <= p_values.d[r][c] /\ p_values.d[r][c] <= One
                      => q_values.d[r][c] = Min2(One, p_values.d[r][c] * Cardinality(ValidCols(p_values.d[r])))
            /\ p_values.d[r] = RowOf(<<1, 2, 3, 20>>) => q_values.d[r] = RowOf(<<4, 8, 12, 80>>)

\* Bonferroni has corrected, in one chunk, two rows with different numbers of
\* missing entries, one value being multiplied by a count below the width
BonferroniReferenceWitness ==
    /\ Returned
    /\ method = "bonferroni"
    /\ \E i \in Submitted : \E r1, r2 \in Range(i) : \E c \in Cols(p_values) :
          /\ Cardinality(ValidCols(p_values.d[r1])) # Cardinality(ValidCols(p_values.d[r2]))
          /\ Cardinality(ValidCols(p_values.d[r1])) < p_values.n
          /\ ~isnan(p_values.d[r1][c])
          /\ 0 < p_values.d[r1][c]
          /\ q_values.d[r1][c] = p_values.d[r1][c] * Cardinality(ValidCols(p_values.d[r1]))
          /\ q_values.d[r1][c] < One

\* a further reachable case of C6: the scenario row corrected by Bonferroni
BonferroniScenarioWitness ==
    /\ Returned
    /\ method = "bonferroni"
    /\ p_values.d[0] = RowOf(<<1, 2, 3, 20>>)
    /\ q_values.d[0] = RowOf(<<4, 8, 12, 80>>)

\* C7: boundedness: every entry of the returned matrix is missing or lies in
\* [0, 1], for both methods and also for inputs outside [0, 1].
OutputBounded ==
    Returned =>
        \A r \in Rows(q_values) : \A c \in Cols(q_values) :
            isnan(q_values.d[r][c]) \/ (0 <= q_values.d[r][c] /\ q_values.d[r][c] <= One)

\* a returned run whose input row holds a negative value and a value above 1
OutputBoundedWitness ==
    /\ Returned
    /\ \E r \in Rows(p_values) : \E a, b \in Cols(p_values) :
          /\ p_values.d[r][a] < 0 /\ q_values.d[r][a] = 0
          /\ ~isnan(p_values.d[r][b]) /\ p_values.d[r][b] > One /\ q_values.d[r][b] = One

\* C8: BH monotonicity: in every row of the returned matrix, p[a] <= p[b]
\* implies q[a] <= q[b] for non-missing positions a, b, whatever the other
\* rows hold.
BhMonotone ==
    Returned /\ method = "bh" =>
        \A r \in Rows(p_values) : \A a, b \in ValidCols(p_values.d[r]) :
            p_values.d[r][a] <= p_values.d[r][b] => q_values.d[r][a] <= q_values.d[r][b]

\* BH has corrected a chunk of several different rows, in one of which the
\* accumulated minimum lowered the value of a smaller p to that of a larger p
BhMonotoneWitness ==
    /\ Returned
    /\ method = "bh"
    /\ \E i \in Submitted : \E r1, r2 \in Range(i) : \E a, b \in ValidCols(p_values.d[r1]) :
          /\ p_values.d[r1] # p_values.d[r2]
          /\ p_values.d[r1][a] < p_values.d[r1][b]
          /\ q_values.d[r1][a] = q_values.d[r1][b]
          /\ q_values.d[r1][b] < One
          /\ 0 < q_values.d[r1][a]

\* position of column c among the non-missing columns of the row
DenseIndex(row, c) == Cardinality({b \in ValidCols(row) : b < c})

\* the row with its missing entries deleted
Dense(row) ==
    [i \in 0 .. (Cardinality(ValidCols(row)) - 1) |->
        row[CHOOSE c \in ValidCols(row) : DenseIndex(row, c) = i]]

\* the one-row matrix of a row
AsMatrix(row) == [m |-> 1, n |-> Cardinality(DOMAIN row), d |-> [r \in {0} |-> row]]

\* C9: under BH missing entries take no rank and no part in cnt: the values
\* at the non-missing positions of a row are those BH gives for the row with
\* the missing entries deleted; [0.5, missing, 0.1] gives
\* [0.5, missing, 0.2]; a row of missing entries only comes back all missing;
\* no entry of the output is infinite.
BhIgnoresMissing ==
    Returned /\ method = "bh" =>
        \A r \in Rows(p_values) :
            LET row == p_values.d[r]
                qd  == _bh_rowwise(AsMatrix(Dense(row))).d[0]
            IN  /\ \A c \in ValidCols(row) : q_values.d[r][c] = qd[DenseIndex(row, c)]
                /\ \A c \in Cols(p_values) : q_values.d[r][c] # Inf
                /\ ValidCols(row) = {} => \A c \in Cols(p_values) : isnan(q_values.d[r][c])
                /\ row = RowOf(<<50, 0 - 1, 10>>) => q_values.d[r] = RowOf(<<50, 0 - 1, 20>>)

\* the scenario row with a missing entry has been corrected by BH
BhIgnoresMissingWitness ==
    /\ Returned
    /\ method = "bh"
    /\ p_values.d[0] = RowOf(<<50, 0 - 1, 10>>)
    /\ q_values.d[0] = RowOf(<<50, 0 - 1, 20>>)

\* a further reachable case of C9: a row of missing entries only, corrected by BH
BhAllMissingWitness ==
    /\ Returned
    /\ method = "bh"
    /\ p_values.n >= 2
    /\ \A c \in Cols(p_values) : isnan(p_values.d[0][c]) /\ isnan(q_values.d[0][c])

\* the permutations of a set
Perms(S) == {f \in [S -> S] : \A a, b \in S : a # b => f[a] # f[b]}

\* the matrix with its columns, its rows permuted, with row r replaced
PermCols(a, s) == [a EXCEPT !.d = [r \in Rows(a) |-> [c \in Cols(a) |-> a.d[r][s[c]]]]]
PermRows(a, t) == [a EXCEPT !.d = [r \in Rows(a) |-> a.d[t[r]]]]
ReplaceRow(a, r, x) == [a EXCEPT !.d[r] = x]

\* what the driver returns for the matrix p with the current method and
\* chunk_rows: the kernel results of chunks 0..i at their row ranges
RECURSIVE Assembled(_, _)
Assembled(p, i) ==
    IF i < 0 THEN empty_like(p, NaN)
    ELSE AssignRows(Assembled(p, i - 1), Lo(i, chunk_rows), Hi(i, chunk_rows, p.m),
                    kernel(method, View(p, Lo(i, chunk_rows), Hi(i, chunk_rows, p.m))))

\* a row of missing entries only
MissingRow(n) == [c \in 0 .. (n - 1) |-> NaN]

\* C10: row independence and permutation equivariance of the kernels (on
\* every chunk) and of the driver (on the whole matrix): permuting the
\* columns permutes every output row alike, permuting the rows permutes the
\* output rows alike, and replacing one row leaves every other output row
\* as it is.
RowIndependence ==
    Returned =>
        /\ \A s \in Perms(Cols(p_values)) :
              /\ Assembled(PermCols(p_values, s), n_chunks - 1) = PermCols(q_values, s)
              /\ \A i \in Submitted :
                    kernel(method, PermCols(View(p_values, futures[i].lo, futures[i].hi), s))
                        = PermCols(futures[i].result, s)
        /\ \A t \in Perms(Rows(p_values)) :
              Assembled(PermRows(p_values, t), n_chunks - 1) = PermRows(q_values, t)
        /\ \A i \in Submitted :
              LET view == View(p_values, futures[i].lo, futures[i].hi)
              IN  \A t \in Perms(Rows(view)) :
                      kernel(method, PermRows(view, t)) = PermRows(futures[i].result, t)
        /\ \A r \in Rows(p_values) : \A x \in RowPool(p_values.n) \cup {MissingRow(p_values.n)} :
              /\ \A r2 \in Rows(p_values) \ {r} :
                    Assembled(ReplaceRow(p_values, r, x), n_chunks - 1).d[r2] = q_values.d[r2]
              /\ \A i \in Submitted : r \in Range(i) =>
                    LET view == View(p_values, futures[i].lo, futures[i].hi)
                    IN  \A r2 \in Rows(view) \ {r - futures[i].lo} :
                            kernel(method, ReplaceRow(view, r - futures[i].lo, x)).d[r2]
                                = futures[i].result.d[r2]

\* a returned run of several chunks, one of them of two rows that differ in
\* content and in their number of missing entries, on at least three columns
RowIndependenceWitness ==
    /\ Returned
    /\ n_chunks >= 2
    /\ p_values.n >= 3
    /\ \E i \in Submitted : \E r1, r2 \in Range(i) :
          /\ Cardinality(ValidCols(p_values.d[r1])) # Cardinality(ValidCols(p_values.d[r2]))
          /\ q_values.d[r1] # q_values.d[r2]
          /\ \E a, b \in Cols(p_values) : q_values.d[r1][a] # q_values.d[r1][b]

\* some chunk's kernel has raised
KernelRaised == \E i \in Submitted : futures[i].exc

\* C11: once the kernel has raised for some chunk the driver never returns
\* a matrix; when it leaves, it leaves by raising the exception of one of the
\* failed chunks, the output buffer is dropped whole, even when other chunks
\* had already been assigned, and no chunk's kernel is ever invoked twice
KernelErrorPropagates ==
    /\ \A i \in Submitted : futures[i].runs <= 1
    /\ KernelRaised => pc \in {"submit", "collect", "shutdown", "raised"}
    /\ KernelRaised /\ pc = "raised" =>
          /\ error = "KernelError"
          /\ error_fut \in Submitted /\ futures[error_fut].exc
          /\ q_values = NoMatrix
    /\ KernelRaised /\ ppc = "failed" => hdf5_file = <<>> /\ pkl_file = <<>> /\ csv_file \in {<<>>, <<StaleCsv>>}

KernelErrorWitness ==
    /\ pc = "raised"
    /\ error = "KernelError"
    /\ n_chunks >= 2
    /\ \E i \in Submitted : futures[i].state = "collected" /\ ~futures[i].exc /\ futures[i].runs = 1
    /\ \E i \in Submitted : i # error_fut /\ futures[i].exc

\* the sinks this run has written
Hdf5Written == hdf5_file # <<>>
CsvWritten == csv_file \notin {<<>>, <<StaleCsv>>}
PklWritten == pkl_file # <<>>
SinkWritten == Hdf5Written \/ CsvWritten \/ PklWritten

\* the driver has returned a matrix of which every row was assigned once
MatrixProduced ==
    /\ pc = "returned"
    /\ q_values.m = p_values.m /\ q_values.n = p_values.n
    /\ \A r \in Rows(p_values) : written[r] = 1

\* C12: in run_pipeline a sink is written only once the driver has returned
\* the whole corrected matrix, and after a correction that raised none of the
\* three sinks is written, whichever are enabled
SinksAfterCorrection ==
    /\ SinkWritten => MatrixProduced
    /\ ppc \in {"start", "loaded", "correct"} => ~SinkWritten
    /\ pc = "raised" => ~SinkWritten
    /\ ppc = "failed" => ~SinkWritten

SinksAfterCorrectionWitness ==
    /\ ppc = "done"
    /\ Hdf5Written /\ CsvWritten /\ PklWritten

\* a run with every sink enabled in which the kernel raised
SinksSkippedWitness ==
    /\ ppc = "failed"
    /\ error = "KernelError"
    /\ output_hdf5 /\ output_csv /\ output_pkl

\* C13: with a method other than "bh" and "bonferroni" the driver raises a
\* ValueError before it sizes, allocates or submits anything: no chunk, no
\* kernel invocation, no output buffer, and run_pipeline writes no sink
InvalidMethodRejected ==
    method \notin Methods =>
        /\ pc \in {"idle", "call", "raised"}
        /\ pc = "raised" => error = "ValueError"
        /\ n_chunks = 0 /\ idx = 0 /\ futures = <<>>
        /\ q_values = NoMatrix
        /\ ppc \in {"direct", "start", "loaded", "correct", "failed"}
        /\ ~SinkWritten

InvalidMethodWitness ==
    /\ method = "holm"
    /\ ppc = "failed"
    /\ pc = "raised"
    /\ output_hdf5 /\ output_csv /\ output_pkl

\* the rows of the input table, by position
InputRows == DOMAIN input_pkl.index

\* C14: whatever the row index labels of the input table, every sink that
\* is written carries the chromosome and the marker id of input row i next
\* to row i of the corrected matrix: in the chr and rs vectors of the HDF5
\* file, in the snp_name of every CSV record, and in the chr and rs columns
\* of the pickled table
IdentifiersAligned ==
    /\ Hdf5Written =>
          \A i \in InputRows :
              /\ hdf5_file[1].chr[i] = input_pkl.data["chr"][i]
              /\ hdf5_file[1].rs[i] = input_pkl.data["rs"][i]
              /\ hdf5_file[1].q_values.d[i] = q_values.d[i]
    /\ CsvWritten =>
          \A k \in DOMAIN csv_file[1] :
              \E i \in InputRows, c \in Cols(q_values) :
                  /\ csv_file[1][k].snp_name = input_pkl.data["rs"][i]
                  /\ csv_file[1][k].pvalue_column = pval_cols[c + 1]
                  /\ csv_file[1][k].q_value = q_values.d[i][c]
                  /\ less(q_values.d[i][c], threshold)
    /\ PklWritten =>
          \A i \in InputRows :
              /\ pkl_file[1].data["chr"][i] = input_pkl.data["chr"][i]
              /\ pkl_file[1].data["rs"][i] = input_pkl.data["rs"][i]
              /\ \A c \in Cols(q_values) : pkl_file[1].data[pval_cols[c + 1]][i] = q_values.d[i][c]

\* the input table carries the default row index 0..M-1
DefaultIndex == \A i \in InputRows : input_pkl.index[i] = i

\* what holds of the identifiers: the HDF5 file and the CSV records are
\* aligned for every table, the pickled table when the row index is the
\* default one
IdentifiersAlignedByLabel ==
    (PklWritten => DefaultIndex) => IdentifiersAligned

\* a pickled table whose identifiers are not those of the input rows
IdentifiersMisalignedWitness ==
    /\ PklWritten
    /\ \E i \in InputRows : pkl_file[1].data["rs"][i] \notin {input_pkl.data["rs"][i], MissingId}
    /\ \A i \in InputRows : pkl_file[1].data["chr"][i] # NaN

\* what a run on this table with this method and threshold produces,
\* whichever sinks are enabled: the matrix, and the content of each sink
RefMatrix == kernel(method, to_numpy(input_pkl, pval_columns(input_pkl)))
RefHdf5 ==
    hdf5_content(Series(input_pkl, "chr"), Series(input_pkl, "rs"), RefMatrix, pval_columns(input_pkl), method)
RefCsv ==
    sort_values(Series(input_pkl, "rs"), RefMatrix, pval_columns(input_pkl),
                where_sig(RefMatrix, Threshold(method, significance_threshold)))
RefPkl ==
    build_corrected_dataframe(Series(input_pkl, "chr"), Series(input_pkl, "rs"), RefMatrix, pval_columns(input_pkl))

\* some corrected value is strictly below the threshold
SomeHit == where_sig(RefMatrix, Threshold(method, significance_threshold)) # {}

\* the content of each written sink and the matrix do not depend on which
\* sinks are enabled
ContentIndependent ==
    /\ q_values = RefMatrix
    /\ Hdf5Written => hdf5_file = <<RefHdf5>>
    /\ CsvWritten => csv_file[1] \in RefCsv
    /\ PklWritten => pkl_file = <<RefPkl>>

StrictlyBelow ==
    {h \in Rows(q_values) \X Cols(q_values) :
        q_values.d[h[1]][h[2]] # NaN /\ q_values.d[h[1]][h[2]] < threshold}

\* record k of the CSV file is the record of position h
IsRecordOf(k, h) ==
    /\ csv_file[1][k].snp_name = input_pkl.data["rs"][h[1]]
    /\ csv_file[1][k].pvalue_column = pval_columns(input_pkl)[h[2] + 1]
    /\ csv_file[1][k].q_value = q_values.d[h[1]][h[2]]

\* C16: the CSV file that export_significant_results writes holds exactly
\* one record (marker id, column name, corrected value) for every position
\* whose corrected value is strictly below the threshold and no other
\* record, so none for a value equal to the threshold or missing, and the
\* records are in non-decreasing order of corrected value
CsvRecordsExact ==
    /\ ppc \in {"pkl", "done"} /\ output_csv /\ StrictlyBelow # {} => CsvWritten
    /\ CsvWritten =>
          /\ Len(csv_file[1]) = Cardinality(StrictlyBelow)
          /\ \A h \in StrictlyBelow : \E k \in DOMAIN csv_file[1] : IsRecordOf(k, h)
          /\ \A k \in DOMAIN csv_file[1] : \E h \in StrictlyBelow : IsRecordOf(k, h)
          /\ \A k \in DOMAIN csv_file[1] : k > 1 => csv_file[1][k - 1].q_value <= csv_file[1][k].q_value

CsvRecordsWitness ==
    /\ CsvWritten
    /\ Len(csv_file[1]) >= 2
    /\ csv_file[1][1].q_value < csv_file[1][2].q_value
    /\ \E r \in Rows(q_values), c \in Cols(q_values) : q_values.d[r][c] = threshold
    /\ \E r \in Rows(q_values), c \in Cols(q_values) : q_values.d[r][c] = NaN

\* a CSV file with records of equal corrected value, whose row-major order
\* the sort has not kept
CsvTiesWitness ==
    /\ CsvWritten
    /\ \E k \in DOMAIN csv_file[1] :
          /\ k > 1
          /\ csv_file[1][k - 1].q_value = csv_file[1][k].q_value
          /\ csv_file[1][k - 1].snp_name = RsOf[2]
          /\ csv_file[1][k].snp_name = RsOf[1]

\* C17: when no corrected value is strictly below the threshold the CSV
\* step raises nothing and leaves the file at the CSV path as it was, absent
\* or not, and run_pipeline goes on to the pickle sink
ZeroHitsNoCsv ==
    [][ppc = "csv" /\ StrictlyBelow = {} =>
          /\ csv_file' = csv_file
          /\ error' = error
          /\ ppc' = "pkl"]_vars

ZeroHitsWitness ==
    /\ ppc = "done"
    /\ output_csv
    /\ StrictlyBelow = {}
    /\ csv_file = <<StaleCsv>>
    /\ PklWritten
    /\ \E r \in Rows(q_values), c \in Cols(q_values) : q_values.d[r][c] = threshold

\* run_pipeline has computed its threshold
ThresholdSet == ppc \in {"loaded", "correct", "csv", "pkl", "done", "failed"}

\* C18: the threshold run_pipeline uses is the caller's
\* significance_threshold whenever one is supplied, zero included, and only
\* when none is supplied the default of the method, 0.05 for bh and 0.01
\* for bonferroni; the CSV step selects with that threshold
ThresholdChosen ==
    /\ ThresholdSet /\ significance_threshold # None => threshold = significance_threshold
    /\ ThresholdSet /\ significance_threshold = None /\ method = "bh" => threshold = P(5)
    /\ ThresholdSet /\ significance_threshold = None /\ method = "bonferroni" => threshold = P(1)
    /\ ppc = "done" /\ output_csv /\ significance_threshold = P(0) => ~CsvWritten

ThresholdZeroWitness ==
    /\ ppc = "done"
    /\ significance_threshold = P(0)
    /\ threshold = P(0)
    /\ output_csv /\ ~CsvWritten
    /\ \E r \in Rows(q_values), c \in Cols(q_values) : q_values.d[r][c] < P(1)

\* the defaults tell the two methods apart: a value a bh run selects by
\* default that lies above the default of bonferroni
ThresholdDefaultWitness ==
    /\ CsvWritten
    /\ significance_threshold = None
    /\ method = "bh"
    /\ \E k \in DOMAIN csv_file[1] : csv_file[1][k].q_value >= P(1)

\* run_pipeline has gone past load_snp_dataframe
LoadLeft == ppc \in {"loaded", "correct", "csv", "pkl", "done", "failed"}

\* nothing after line 291 has happened
StoppedAtLoad ==
    /\ ppc = "failed"
    /\ pc = "idle"
    /\ p_values = NoMatrix /\ chr_col = NoSeries /\ rs_col = NoSeries /\ pval_cols = <<>>
    /\ n_chunks = 0 /\ idx = 0 /\ futures = <<>> /\ q_values = NoMatrix
    /\ ~SinkWritten

\* C19: when the unpickled object is not a table loading raises TypeError,
\* when it is a table without chr or without rs loading raises ValueError,
\* and in both cases run_pipeline stops there: nothing is extracted, no
\* chunk is dispatched, no sink is written
LoadRejects ==
    /\ LoadLeft /\ input_pkl.kind # "DataFrame" => error = "TypeError" /\ StoppedAtLoad
    /\ LoadLeft /\ input_pkl.kind = "DataFrame" /\ ~({"chr", "rs"} \subseteq ColumnSet(input_pkl)) =>
          error = "ValueError" /\ StoppedAtLoad

LoadRejectsWitness ==
    /\ ppc = "failed"
    /\ input_pkl = NotATable
    /\ error = "TypeError"
    /\ output_hdf5 /\ output_csv /\ output_pkl

\* a table with rs but without chr is rejected
LoadSchemaWitness ==
    /\ ppc = "failed"
    /\ input_pkl.kind = "DataFrame"
    /\ "rs" \in ColumnSet(input_pkl) /\ "chr" \notin ColumnSet(input_pkl)
    /\ error = "ValueError"

\* the test columns of the input table, in input order
TestColumns == SelectSeq(input_pkl.columns, LAMBDA c : c # "chr" /\ c # "rs")

\* the pickled table has M rows, the columns chr, rs and then the N test
\* columns in input order, and column j of the corrected matrix under the
\* j-th test column name
CorrectedTableShape ==
    /\ DOMAIN pkl_file[1].index = InputRows
    /\ pkl_file[1].columns = <<"chr", "rs">> \o TestColumns
    /\ Len(pkl_file[1].columns) = Len(input_pkl.columns)
    /\ \A c \in DOMAIN pkl_file[1].columns : DOMAIN pkl_file[1].data[pkl_file[1].columns[c]] = InputRows
    /\ \A j \in DOMAIN TestColumns, i \in InputRows :
          pkl_file[1].data[TestColumns[j]][i] = q_values.d[i][j - 1]

BhTiesEqual ==
    Returned /\ method = "bh" =>
        \A r \in Rows(p_values) : \A c1, c2 \in Cols(p_values) :
            ~isnan(p_values.d[r][c1]) /\ p_values.d[r][c1] = p_values.d[r][c2]
                => q_values.d[r][c1] = q_values.d[r][c2]

\* a tie whose two raw values differ and whose adjusted value is not clipped
BhTiesWitness ==
    /\ Returned /\ method = "bh"
    /\ \E r \in Rows(p_values) : \E c1, c2 \in Cols(p_values) :
          /\ c1 < c2
          /\ p_values.d[r][c1] = P(10) /\ p_values.d[r][c2] = P(10)
          /\ q_values.d[r][c1] > P(10) /\ q_values.d[r][c1] < One
          /\ \E c3 \in Cols(p_values) : p_values.d[r][c3] > P(10) /\ ~isnan(p_values.d[r][c3])

\* C24: for M >= 1 and N >= 1 the driver sizes its chunks as
\* min(M, max(1, 512000 div (4 N))) when chunk_rows is not supplied and as
\* min(chunk_rows, M) for a supplied chunk_rows >= 1; then
\* 1 <= chunk_rows <= M, the number of chunks is ceil(M / chunk_rows), and
\* every chunk submitted has between 1 and chunk_rows rows, only the last
\* one fewer than chunk_rows
ChunkSizing ==
    [][/\ (pc = "call" /\ pc' = "submit" /\ p_values.m >= 1 /\ p_values.n >= 1) =>
            /\ chunk_rows = None => chunk_rows' = Min2(p_values.m, Max2(1, 512000 \div (4 * p_values.n)))
            /\ chunk_rows >= 1 => chunk_rows' = Min2(chunk_rows, p_values.m)
            /\ 1 <= chunk_rows' /\ chunk_rows' <= p_values.m
            /\ (n_chunks' - 1) * chunk_rows' < p_values.m /\ p_values.m <= n_chunks' * chunk_rows'
       /\ \A i \in DOMAIN futures' :
            /\ i < n_chunks'
            /\ 1 <= futures'[i].hi - futures'[i].lo
            /\ futures'[i].hi - futures'[i].lo <= chunk_rows'
            /\ futures'[i].hi - futures'[i].lo < chunk_rows' => i = n_chunks' - 1]_vars

\* a last chunk shorter than the others
ChunkSizingWitness ==
    /\ Returned
    /\ n_chunks >= 2
    /\ futures[0].hi - futures[0].lo = chunk_rows
    /\ futures[n_chunks - 1].hi - futures[n_chunks - 1].lo < chunk_rows

\* a supplied chunk_rows above M, clamped to one chunk of M rows
ChunkClampWitness ==
    /\ Returned
    /\ p_values.m = 1 /\ chunk_rows = 1 /\ n_chunks = 1
    /\ n_threads = MaxThreads

\* C25: from the call on, no step of the driver or of a pool thread, with
\* either kernel and whether chunks succeed or raise, changes an entry of
\* the input matrix
InputNeverModified ==
    [][pc # "idle" => p_values' = p_values]_vars

\* a failed run in which a kernel has also returned a result that differs
\* from its input rows
InputNeverModifiedWitness ==
    /\ pc = "raised"
    /\ error = "KernelError"
    /\ \E i \in Submitted :
          /\ ~futures[i].exc
          /\ futures[i].state \in {"finished", "collected"}
          /\ futures[i].result # View(p_values, futures[i].lo, futures[i].hi)

\* the step is one of a pool thread: a future starts or finishes running
WorkerStep ==
    \E i \in DOMAIN futures :
        /\ futures'[i].state # futures[i].state
        /\ futures'[i].state \in {"running", "finished"}

\* the step assigns the result of the next yielded future to its rows of
\* the output buffer, and nothing else of the buffer changes
DriverCopiesOneChunk ==
    /\ pc = "collect" /\ pc' = "collect"
    /\ yieldq # <<>> /\ yieldq' = Tail(yieldq)
    /\ futures[Head(yieldq)].state = "finished" /\ futures'[Head(yieldq)].state = "collected"
    /\ \A r \in Rows(q_values) :
          IF futures[Head(yieldq)].lo <= r /\ r < futures[Head(yieldq)].hi
          THEN q_values'.d[r] = futures[Head(yieldq)].result.d[r - futures[Head(yieldq)].lo]
          ELSE q_values'.d[r] = q_values.d[r]

\* C26: the output buffer changes only in steps of the driver: its
\* allocation, the assignment of one chunk result at a time in the
\* as_completed loop, and its release when the driver raises; a step of a
\* pool thread never changes it, and what a pool thread produces is an
\* array of its own, of the size of its chunk
OnlyDriverWrites ==
    [][/\ q_values' # q_values =>
            \/ pc = "call" /\ pc' = "submit"
            \/ DriverCopiesOneChunk
            \/ pc = "shutdown" /\ pc' = "raised"
       /\ WorkerStep => q_values' = q_values
       /\ \A i \in DOMAIN futures' :
            futures'[i].state \in {"finished", "collected"} /\ ~futures'[i].exc =>
                /\ futures'[i].result.m = futures'[i].hi - futures'[i].lo
                /\ futures'[i].result.n = p_values.n]_vars

\* one chunk has been copied by the driver while two others are running
OnlyDriverWritesWitness ==
    /\ pc = "collect"
    /\ \E i \in Submitted : futures[i].state = "collected" /\ ~futures[i].exc
    /\ Cardinality(InState("running")) >= 2

\* the driver has left by returning or by raising a kernel's exception
DriverLeft == pc = "returned" \/ (pc = "raised" /\ error = "KernelError")

\* every chunk has been dispatched and its one kernel invocation is over
AllInvocationsOver ==
    /\ Submitted = 0 .. (n_chunks - 1)
    /\ \A i \in Submitted : futures[i].state \in {"finished", "collected"} /\ futures[i].runs = 1

\* the failed chunks the driver has met so far in its as_completed loop
FailedMet == {i \in Submitted : futures[i].exc /\ futures[i].state = "collected"}

\* the driver is between its call and its return or raise
DriverActive == pc \in {"call", "submit", "collect", "shutdown"}

\* a step of the driver thread, or the start of a queued work item, is possible
DriverOrPoolCanStep ==
    ENABLED (\/ Enter \/ EnterRaise \/ Submit \/ BeginCollect \/ Collect \/ CollectRaise
             \/ ShutdownRaise \/ Return
             \/ \E i \in Submitted : WorkerStart(i))

\* what is left to do: positions of the driver still ahead, chunks to
\* submit, and for every future the steps to its collection
Measure ==
    IF pc = "call" THEN 5 + 4 * p_values.m
    ELSE (CASE pc = "submit" -> 4 [] pc = "collect" -> 3 [] pc = "shutdown" -> 2 [] OTHER -> 0)
         + 4 * (n_chunks - idx)
         + 3 * Cardinality(InState("pending")) + 2 * Cardinality(InState("running"))
         + Cardinality(InState("finished"))

\* while the driver is active every step brings the end nearer, and a
\* step is possible as long as a running kernel invocation can end
DriverTerminates ==
    /\ [][DriverActive => Measure' < Measure]_vars
    /\ [](DriverActive => DriverOrPoolCanStep \/ InState("running") # {})

\* C27 as stated: the driver leaves only after every dispatched chunk's
\* kernel invocation is over, failed or not and nothing cancelled; the
\* error it raises is that of the chunk that failed first in completion
\* order; and the driver terminates if every kernel invocation does
NoCancellationFirstFailed ==
    /\ [](DriverLeft => AllInvocationsOver)
    /\ [](pc = "raised" /\ error = "KernelError" =>
            /\ futures[error_fut].exc
            /\ \A i \in Submitted : futures[i].exc => futures[error_fut].failed_at <= futures[i].failed_at)
    /\ DriverTerminates

\* C27 amended: the driver leaves only after every dispatched chunk's
\* kernel invocation is over, failed or not and nothing cancelled; the
\* error it raises is that of the first failed chunk it meets in the order
\* as_completed yields the chunks, the only failed chunk it ever meets; and
\* the driver terminates if every kernel invocation does: each step brings
\* the end nearer and a step is always possible
NoCancellation ==
    /\ [](DriverLeft => AllInvocationsOver)
    /\ [](FailedMet \subseteq {error_fut})
    /\ [](pc = "raised" /\ error = "KernelError" => FailedMet = {error_fut})
    /\ [][DriverActive => Measure' < Measure]_vars
    /\ [](DriverActive => DriverOrPoolCanStep \/ InState("running") # {})

\* the driver has raised the error of a chunk that was not the first to
\* fail, after a sibling submitted earlier succeeded and one failed unmet
NoCancellationWitness ==
    /\ pc = "raised" /\ error = "KernelError"
    /\ futures[error_fut].failed_at > 0
    /\ \E i \in Submitted : futures[i].exc /\ futures[i].state = "finished" /\ futures[i].failed_at = 0
    /\ \E i \in Submitted : ~futures[i].exc /\ futures[i].runs = 1

\* C29: with a valid method, a call with chunk_rows left to None on a
\* matrix without rows or without columns, or with chunk_rows = 0, leaves
\* the driver by a ZeroDivisionError in its first step: no chunk is
\* dispatched, no buffer allocated, no matrix returned
DegenerateShapesRaise ==
    [][(/\ pc = "call"
        /\ method \in Methods
        /\ \/ chunk_rows = None /\ (p_values.m = 0 \/ p_values.n = 0)
           \/ chunk_rows = 0) =>
            /\ pc' = "raised"
            /\ error' = "ZeroDivisionError"
            /\ n_chunks' = 0 /\ idx' = 0 /\ futures' = <<>>
            /\ q_values' = NoMatrix]_vars

\* the matrix without rows, sized automatically
DegenerateShapesWitness ==
    /\ pc = "raised"
    /\ error = "ZeroDivisionError"
    /\ p_values.m = 0 /\ p_values.n = 1
    /\ chunk_rows = None

\* the matrix without columns, and the explicit chunk_rows of 0
DegenerateColumnsWitness ==
    /\ pc = "raised" /\ error = "ZeroDivisionError"
    /\ p_values.m = 1 /\ p_values.n = 0 /\ chunk_rows = None
DegenerateChunkRowsWitness ==
    /\ pc = "raised" /\ error = "ZeroDivisionError"
    /\ p_values.m = 1 /\ p_values.n = 1 /\ chunk_rows = 0

\* C30: for the matrix of a returned call and every entry p of it with
\* 0 <= p <= 1, the value of the bh kernel at that position lies between p
\* and the value of the bonferroni kernel there, and the matrix returned is
\* that of the method called
BhBetweenPAndBonferroni ==
    Returned =>
        LET bh   == _bh_rowwise(p_values)
            bonf == _bonferroni_rowwise(p_values)
        IN  /\ q_values = (IF method = "bh" THEN bh ELSE bonf)
            /\ \A r \in Rows(p_values), c \in Cols(p_values) :
                  (~isnan(p_values.d[r][c]) /\ 0 <= p_values.d[r][c] /\ p_values.d[r][c] <= One) =>
                      /\ p_values.d[r][c] <= bh.d[r][c]
                      /\ bh.d[r][c] <= bonf.d[r][c]

\* an entry with p < q_BH < q_Bonferroni < 1 in a row that also holds an
\* entry above 1 or below 0
BhBetweenWitness ==
    /\ Returned
    /\ \E r \in Rows(p_values), c \in Cols(p_values) :
          /\ p_values.d[r][c] = P(10)
          /\ P(10) < _bh_rowwise(p_values).d[r][c]
          /\ _bh_rowwise(p_values).d[r][c] < _bonferroni_rowwise(p_values).d[r][c]
          /\ _bonferroni_rowwise(p_values).d[r][c] < One
          /\ \E c2 \in Cols(p_values) : p_values.d[r][c2] > One \/ p_values.d[r][c2] < 0

\* --------------------------------------------------------------------------
\* Screening: the hits and the files (ScreenSpec)
\* --------------------------------------------------------------------------
\* the cells of the aligned tables: row position and protein column
Cells == {<<r, j>> : r \in DOMAIN bonf_df.rows, j \in 1 .. NProteins(bonf_df)}

QAt(c) == bonf_df.rows[c[1]][2 + c[2]]
PipAt(c) == pip_df.rows[c[1]][2 + c[2]]

\* the cell is a hit for the pair: both values present, q below and pip above
IsHit(c, pair) ==
    /\ QAt(c) # NaN /\ PipAt(c) # NaN
    /\ QAt(c) < pair[1]
    /\ PipAt(c) > pair[2]

\* the record of a cell
RecordOf(c) ==
    [snp_name |-> bonf_df.rows[c[1]][2],
     protein  |-> bonf_df.columns[2 + c[2]],
     q_value  |-> QAt(c),
     pip      |-> PipAt(c)]

\* how many times x occurs in the list
CountIn(list, x) == Cardinality({i \in DOMAIN list : list[i] = x})

\* the list holds one record per hit of the pair and nothing else
ExactlyTheHits(list, pair) ==
    /\ Len(list) = Cardinality({c \in Cells : IsHit(c, pair)})
    /\ \A c \in Cells :
        IsHit(c, pair) =>
            CountIn(list, RecordOf(c))
                = Cardinality({d \in Cells : IsHit(d, pair) /\ RecordOf(d) = RecordOf(c)})

\* the pairs whose iteration of main is over
PairsDone ==
    1 .. (IF s_pc \in {"grid", "done"} THEN grid_pos ELSE Max2(grid_pos - 1, 0))

\* C21: what screen_hits returns for a threshold pair holds exactly one record
\* for every (row, protein column) with q_value < bonferroni threshold and
\* pip > pip threshold, and no other record (a missing q or pip gives no hit),
\* whatever the order in which the per-protein tasks complete; and main has
\* written exactly one CSV file, holding those records, for every pair of the
\* grid it has gone through, the pairs with zero hits included, so that it
\* ends with one file per pair of the Cartesian product of the two lists.
ScreeningExact ==
    /\ s_pc = "export" => ExactlyTheHits(hits_df, ParameterGrid[grid_pos])
    /\ DOMAIN csv_files = {fname(ParameterGrid[g][1], ParameterGrid[g][2]) : g \in PairsDone}
    /\ Cardinality(DOMAIN csv_files) = Cardinality(PairsDone)
    /\ \A g \in PairsDone :
        ExactlyTheHits(csv_files[fname(ParameterGrid[g][1], ParameterGrid[g][2])], ParameterGrid[g])
    /\ s_pc = "done" =>
        /\ PairsDone = DOMAIN ParameterGrid
        /\ Cardinality(DOMAIN csv_files)
            = Len(BONFERRONI_THRESHOLDS) * Len(PIP_THRESHOLDS)

\* main is over; one pair had no hit and its file is there, another has the
\* hits of two proteins, collected against the order of submission
ScreeningWitness ==
    /\ s_pc = "done"
    /\ \E f \in DOMAIN csv_files : csv_files[f] = <<>>
    /\ \E f \in DOMAIN csv_files :
        /\ Len(csv_files[f]) >= 2
        /\ csv_files[f][1].protein = ProteinPool[2]
        /\ csv_files[f][Len(csv_files[f])].protein = ProteinPool[1]

\* main is over on tables with a cell whose q is missing while its pip passes
ScreeningMissingQWitness ==
    /\ s_pc = "done"
    /\ \E c \in Cells, g \in DOMAIN ParameterGrid :
        QAt(c) = NaN /\ PipAt(c) # NaN /\ PipAt(c) > ParameterGrid[g][2]

\* ... whose pip is missing while its q passes
ScreeningMissingPipWitness ==
    /\ s_pc = "done"
    /\ \E c \in Cells, g \in DOMAIN ParameterGrid :
        PipAt(c) = NaN /\ QAt(c) < ParameterGrid[g][1]

\* ... whose q equals a threshold while its pip passes
ScreeningQBoundaryWitness ==
    /\ s_pc = "done"
    /\ \E c \in Cells, g \in DOMAIN ParameterGrid :
        QAt(c) = ParameterGrid[g][1] /\ PipAt(c) # NaN /\ PipAt(c) > ParameterGrid[g][2]

\* ... whose pip equals a threshold while its q passes
ScreeningPipBoundaryWitness ==
    /\ s_pc = "done"
    /\ \E c \in Cells, g \in DOMAIN ParameterGrid :
        PipAt(c) = ParameterGrid[g][2] /\ QAt(c) < ParameterGrid[g][1]

\* --------------------------------------------------------------------------
\* Screening: load_and_align (ScreenSpec)
\* --------------------------------------------------------------------------
\* the two tables share a (chr, rs) pair
SharedKey ==
    \E i \in DOMAIN bonf_pkl.rows, k \in DOMAIN pip_pkl.rows :
        /\ bonf_pkl.rows[i][1] = pip_pkl.rows[k][1]
        /\ bonf_pkl.rows[i][2] = pip_pkl.rows[k][2]

HeaderOk(t) == Len(t.columns) >= 2 /\ t.columns[1] = "chr" /\ t.columns[2] = "rs"

SameTestColumns ==
    /\ Len(bonf_pkl.columns) = Len(pip_pkl.columns)
    /\ \A i \in DOMAIN bonf_pkl.columns : i > 2 => bonf_pkl.columns[i] = pip_pkl.columns[i]

\* one of the three cases in which load_and_align has to fail
MustReject ==
    \/ ~HeaderOk(bonf_pkl)
    \/ ~HeaderOk(pip_pkl)
    \/ ~SameTestColumns
    \/ ~SharedKey

\* no screening has been run and no file written
NothingRun ==
    /\ grid_pos = 0
    /\ tasks = <<>>
    /\ records = <<>>
    /\ hits_df = <<>>
    /\ csv_files = <<>>

\* the (chr, rs) pairs of the rows of a table, chr as a number
PairsOf(t) == {<<t.rows[i][1], t.rows[i][2]>> : i \in DOMAIN t.rows}

\* the two tables have the same number of rows and the same key in every position
SameKeys(b, p) ==
    /\ Len(b.rows) = Len(p.rows)
    /\ \A i \in DOMAIN b.rows :
        /\ b.rows[i][1] = p.rows[i][1]
        /\ b.rows[i][2] = p.rows[i][2]

\* C22: load_and_align fails with an error, before any screening is run and
\* before any output file is written, when the first two columns of either
\* table are not chr, rs, when the test-column names of the two tables
\* differ, or when the two tables share no (chr, rs) key; when it succeeds
\* (the keys of each table being unique), the two tables it returns have the
\* same number of rows and the same (chr, rs) key in every row position: the
\* keys the two inputs share.
LoadAlignContract ==
    /\ [](s_pc \in {"start", "raised"} => NothingRun)
    /\ [][s_pc = "start" =>
            IF MustReject
            THEN s_pc' = "raised" /\ s_error' # "none"
            ELSE /\ s_pc' = "grid"
                 /\ s_error' = "none"
                 /\ PairsOf(bonf_df') = PairsOf(bonf_pkl) \cap PairsOf(pip_pkl)
                 /\ Len(bonf_df'.rows) = Cardinality(PairsOf(bonf_df'))]_vars
    /\ [](s_pc \notin {"start", "raised"} => SameKeys(bonf_df, pip_df))

\* load_and_align has failed on two well-formed tables that share no key
LoadAlignWitness ==
    /\ s_pc = "raised"
    /\ HeaderOk(bonf_pkl) /\ HeaderOk(pip_pkl) /\ SameTestColumns
    /\ bonf_pkl.rows # <<>> /\ pip_pkl.rows # <<>>
    /\ ~SharedKey

\* it has failed on a header, and on differing test columns
LoadAlignHeaderWitness ==
    /\ s_pc = "raised"
    /\ HeaderOk(bonf_pkl) /\ ~HeaderOk(pip_pkl)

LoadAlignNamesWitness ==
    /\ s_pc = "raised"
    /\ HeaderOk(bonf_pkl) /\ HeaderOk(pip_pkl) /\ ~SameTestColumns /\ SharedKey

\* it has returned two tables of two rows
LoadAlignAlignedWitness ==
    /\ s_pc = "grid"
    /\ grid_pos = 0
    /\ Len(bonf_df.rows) >= 2

\* load_and_align is about to run on tables that list two shared SNPs in
\* opposite orders, one table with its chr column as text
LoadAlignShuffledInput ==
    /\ s_pc = "start"
    /\ ~MustReject
    /\ bonf_pkl.chr_dtype # pip_pkl.chr_dtype
    /\ \E i, k \in DOMAIN bonf_pkl.rows, a, c \in DOMAIN pip_pkl.rows :
        /\ i < k /\ a < c
        /\ Prefix(bonf_pkl.rows[i], 2) = Prefix(pip_pkl.rows[c], 2)
        /\ Prefix(bonf_pkl.rows[k], 2) = Prefix(pip_pkl.rows[a], 2)

\* ... on tables that each list a SNP the other lacks
LoadAlignPartialInput ==
    /\ s_pc = "start"
    /\ ~MustReject
    /\ PairsOf(bonf_pkl) \ PairsOf(pip_pkl) # {}
    /\ PairsOf(pip_pkl) \ PairsOf(bonf_pkl) # {}

\* --------------------------------------------------------------------------
\* Upstream aggregation (AggSpec)
\* --------------------------------------------------------------------------
\* the phenotypes the loop has gone through
Processed == {phenotypes[k] : k \in 1 .. ph_i}

\* the phenotype's file is missing or cannot be read
Affected(ph) == ~assoc_files[ph].exists \/ ~assoc_files[ph].readable

\* the entries of the list
Elems(list) == {list[i] : i \in DOMAIN list}

\* the list names phenotypes in the order of the sorted directory listing
InListingOrder(list) ==
    \A a, b \in DOMAIN list :
        a < b => \E x, y \in DOMAIN phenotypes :
                    x < y /\ phenotypes[x] = list[a] /\ phenotypes[y] = list[b]

\* the column has at least one value
HasValue(col) == \E r \in DOMAIN col : col[r] # NaN

\* C28: a phenotype whose source file is missing or unreadable does not stop
\* the run: every phenotype of the sorted listing is processed, in order,
\* before the cleanup; the column of such a phenotype stays entirely missing;
\* and the cleanup drops exactly the columns that are entirely missing: the
\* saved table keeps, unchanged and in order, every column with at least one
\* value and no other.
AggregationTolerant ==
    /\ a_pc \in {"loop", "done"} =>
        /\ Elems(successful_phenotypes) \cup Elems(failed_phenotypes) = Processed
        /\ Elems(successful_phenotypes) \cap Elems(failed_phenotypes) = {}
        /\ Len(successful_phenotypes) + Len(failed_phenotypes) = ph_i
        /\ InListingOrder(successful_phenotypes)
        /\ InListingOrder(failed_phenotypes)
        /\ \A ph \in DOMAIN assoc_files :
            Affected(ph) =>
                /\ ~HasValue(p_snps.data[ph])
                /\ ph \in Processed => ph \in Elems(failed_phenotypes)
    /\ a_pc = "done" =>
        /\ Processed = DOMAIN assoc_files
        /\ output_pickle # <<>>
        /\ LET cleaned == output_pickle[1]
           IN  /\ \A c \in Elems(p_snps.columns) :
                    c \in Elems(cleaned.columns) <=> HasValue(p_snps.data[c])
               /\ Elems(cleaned.columns) \subseteq Elems(p_snps.columns)
               /\ \A c \in Elems(cleaned.columns) : cleaned.data[c] = p_snps.data[c]
               /\ \A a, b \in DOMAIN cleaned.columns :
                    a < b => \E x, y \in DOMAIN p_snps.columns :
                                x < y /\ p_snps.columns[x] = cleaned.columns[a]
                                      /\ p_snps.columns[y] = cleaned.columns[b]
               /\ Elems(removed_columns) = Elems(p_snps.columns) \ Elems(cleaned.columns)

\* the run is over: a phenotype without file and one with an unreadable file
\* were passed, a later phenotype was filled, and its column, with a value
\* and a missing entry, is kept while the two others are dropped
AggregationWitness ==
    /\ a_pc = "done"
    /\ \E x, y, z \in DOMAIN phenotypes :
        /\ x < z /\ y < z
        /\ ~assoc_files[phenotypes[x]].exists
        /\ assoc_files[phenotypes[y]].exists /\ ~assoc_files[phenotypes[y]].readable
        /\ HasValue(p_snps.data[phenotypes[z]])
        /\ isna_any(p_snps.data[phenotypes[z]])
        /\ phenotypes[z] \in Elems(output_pickle[1].columns)
        /\ phenotypes[x] \in Elems(removed_columns)
        /\ phenotypes[y] \in Elems(removed_columns)

\* a readable file whose rs match no SNP leaves an entirely missing column,
\* which is dropped as well
AggregationNoMatchWitness ==
    /\ a_pc = "done"
    /\ snp_data # <<>>
    /\ \E ph \in Elems(successful_phenotypes) : ph \in Elems(removed_columns)

\* with no SNP at all every column is entirely missing, chr and rs included
AggregationNoRowsWitness ==
    /\ a_pc = "done"
    /\ snp_data = <<>>
    /\ output_pickle[1].columns = <<>>
====
